---- MODULE Spec2Model ----
(***************************************************************************)
(* Enrollment lifecycle of gestor-eventos: users with a profile, events    *)
(* with a capacity, registrations (Inscricao) and certificates             *)
(* (Certificado), as stored by the Django models of src/api/models.py and  *)
(* changed by the web views of src/api/views.py, the REST endpoints of     *)
(* src/api/endpoints.py and the admin site of src/api/admin.py.            *)
(***************************************************************************)
EXTENDS Integers, FiniteSets, Sequences, TLC

\* ------------------------------------------------------------------------
\* Enumerations (src/api/models.py)
\* ------------------------------------------------------------------------
ALUNO == "ALUNO"
PROFESSOR == "PROFESSOR"
ORGANIZADOR == "ORGANIZADOR"
ADMIN == "ADMIN"
PerfilChoices == {ALUNO, PROFESSOR, ORGANIZADOR, ADMIN}

PENDENTE == "PENDENTE"
CONFIRMADA == "CONFIRMADA"
CANCELADA == "CANCELADA"
InscricaoStatus == {PENDENTE, CONFIRMADA, CANCELADA}

\* ------------------------------------------------------------------------
\* Bounds of the model
\* ------------------------------------------------------------------------
\* primary keys handed out to registrations (an AutoField never reuses one)
MaxPk == 2
\* certificate codes handed out (one uuid4 per created certificate)
MaxCert == 2
\* largest hours value offered to the certificate form
MaxCarga == 2
\* AuditLog rows the audit specification follows before it stops
MaxAudit == 1

\* ------------------------------------------------------------------------
\* The fixture: the users and the event of ModeloTestCase.setUp, plus a
\* second organizer with an event of their own.
\* ------------------------------------------------------------------------
Usuarios == {"adm", "o1", "o2", "s1", "p1"}
EventoIds == {"e1", "e2"}

\* perfil= of the create_user calls of the fixture
perfil_inicial ==
  [u \in Usuarios |->
     CASE u = "adm" -> ADMIN
       [] u \in {"o1", "o2"} -> ORGANIZADOR
       [] u = "s1" -> ALUNO
       [] OTHER -> PROFESSOR]

\* InstituicaoChoices; a null or empty instituicao
UNB == "UNB"
IFB == "IFB"
NoInst == ""
InstituicaoChoices == {UNB, IFB}

\* instituicao= of the create_user calls of the fixture
instituicao_inicial ==
  [u \in Usuarios |->
     CASE u = "s1" -> UNB
       [] u = "p1" -> IFB
       [] OTHER -> NoInst]

\* capacidade=1 and data_fim="2025-10-11" of the test fixture
CapacidadeInicial == 1
DataFimInicial == 11
\* data_inicio="2025-10-10" of the test fixture
DataInicioInicial == 10

\* users that may enter the admin site (is_staff / is_superuser)
Staff == {"adm"}

NoPk == 0
NoDate == 0
NoCert == 0

\* outcome kinds of an operation
OK == "ok"
RoleNotEligible == "RoleNotEligible"
AlreadyRegistered == "AlreadyRegistered"
CapacityExceeded == "CapacityExceeded"
PresencaInvalida == "PresencaInvalida"
PermissionDenied == "PermissionDenied"
NotFound == "NotFound"
NotEligible == "NotEligible"
InvalidValidityDate == "InvalidValidityDate"
InvalidInput == "InvalidInput"
\* an exception no handler catches: the request ends as a server error
ServerError == "ServerError"

\* AcaoAuditoriaChoices (the kinds the registration lifecycle writes)
INSCRICAO_CRIADA == "INSCRICAO_CRIADA"
INSCRICAO_ATUALIZADA == "INSCRICAO_ATUALIZADA"
INSCRICAO_CANCELADA == "INSCRICAO_CANCELADA"
CERTIFICADO_GERADO == "CERTIFICADO_GERADO"

\* a null usuario of an AuditLog row
NoUser == "none"

VARIABLES
  usuarios,      \* Usuario rows: username -> [perfil, instituicao]
  eventos,       \* Evento rows: id -> [capacidade, organizador, data_fim, data_inicio, professor_responsavel]
  inscricoes,    \* Inscricao rows: set of [pk, evento, participante, status, presenca_confirmada]
  nextPk,        \* next primary key of the Inscricao table
  certificados,  \* Certificado rows: set of [inscricao, emitido_por, carga_horaria, validade, observacoes, codigo]
  nextCodigo,    \* next fresh certificate code
  result,        \* outcome of the last request: [actor, kind]
  threads,       \* requests in flight between validation and write (concurrent specification)
  audit,         \* AuditLog rows, oldest first: [acao, usuario, usuario_afetado, evento, inscricao, certificado, status]
  aviso          \* the last request left a messages.warning for its caller

vars == <<usuarios, eventos, inscricoes, nextPk, certificados, nextCodigo, result, threads, audit, aviso>>

\* Usuario.perfil of every stored user
perfil == [u \in DOMAIN usuarios |-> usuarios[u].perfil]

ThreadIds == {1, 2}
Idle == [pc |-> "idle"]

\* ------------------------------------------------------------------------
\* Queries
\* ------------------------------------------------------------------------
Pks(insc) == {r.pk : r \in insc}

Row(insc, pk) == CHOOSE r \in insc : r.pk = pk

Existing(insc, e, p) == {r \in insc : r.evento = e /\ r.participante = p}

Confirmadas(insc, e) == {r \in insc : r.evento = e /\ r.status = CONFIRMADA}

\* a vagas_disponiveis that counts every registration that is not cancelled
vagas_disponiveis_conta_pendentes(insc, e) ==
  LET confirmadas == Cardinality({r \in insc : r.evento = e /\ r.status # CANCELADA})
  IN IF eventos[e].capacidade - confirmadas > 0
       THEN eventos[e].capacidade - confirmadas
       ELSE 0

vagas_disponiveis(insc, e) ==
  LET confirmadas == Cardinality(Confirmadas(insc, e))
  IN IF eventos[e].capacidade - confirmadas > 0
       THEN eventos[e].capacidade - confirmadas
       ELSE 0

\* ------------------------------------------------------------------------
\* Inscricao (src/api/models.py)
\* ------------------------------------------------------------------------
\* profiles a participant may have (limit_choices_to of Inscricao.participante;
\* the same list is repeated by clean, the views and the serializer)
PerfisParticipante_com_admin == {ALUNO, PROFESSOR, ADMIN}

PerfisParticipante == {ALUNO, PROFESSOR}

unique_together_off(insc, rec) == TRUE

unique_together(insc, rec) ==
  \A r \in insc :
    (r.evento = rec.evento /\ r.participante = rec.participante) => r.pk = rec.pk

\* clean() without the count of the event's confirmed registrations
Inscricao_clean_sem_capacidade(insc, rec) ==
  IF perfil[rec.participante] \notin PerfisParticipante THEN RoleNotEligible
  ELSE IF perfil[rec.participante] = ORGANIZADOR THEN RoleNotEligible
  ELSE IF rec.presenca_confirmada /\ rec.status # CONFIRMADA THEN PresencaInvalida
  ELSE OK

\* clean() without the test of presenca_confirmada against the status
Inscricao_clean_sem_presenca(insc, rec) ==
  IF perfil[rec.participante] \notin PerfisParticipante THEN RoleNotEligible
  ELSE IF perfil[rec.participante] = ORGANIZADOR THEN RoleNotEligible
  ELSE IF /\ rec.status = CONFIRMADA
          /\ Cardinality({r \in Confirmadas(insc, rec.evento) : r.pk # rec.pk})
               >= eventos[rec.evento].capacidade
       THEN CapacityExceeded
  ELSE OK

\* clean() whose count of confirmed registrations includes the row being saved
Inscricao_clean_conta_propria(insc, rec) ==
  IF perfil[rec.participante] \notin PerfisParticipante THEN RoleNotEligible
  ELSE IF perfil[rec.participante] = ORGANIZADOR THEN RoleNotEligible
  ELSE IF /\ rec.status = CONFIRMADA
          /\ Cardinality(Confirmadas(insc, rec.evento)) >= eventos[rec.evento].capacidade
       THEN CapacityExceeded
  ELSE IF rec.presenca_confirmada /\ rec.status # CONFIRMADA THEN PresencaInvalida
  ELSE OK

Inscricao_clean(insc, rec) ==
  IF perfil[rec.participante] \notin PerfisParticipante THEN RoleNotEligible
  ELSE IF perfil[rec.participante] = ORGANIZADOR THEN RoleNotEligible
  ELSE IF /\ rec.status = CONFIRMADA
          /\ LET confirmadas ==
                   IF rec.pk # NoPk
                     THEN {r \in Confirmadas(insc, rec.evento) : r.pk # rec.pk}
                     ELSE Confirmadas(insc, rec.evento)
             IN Cardinality(confirmadas) >= eventos[rec.evento].capacidade
       THEN CapacityExceeded
  ELSE IF rec.presenca_confirmada /\ rec.status # CONFIRMADA THEN PresencaInvalida
  ELSE OK

\* Model.full_clean: clean() and then validate_unique()
Inscricao_full_clean(insc, rec) ==
  LET c == Inscricao_clean(insc, rec)
  IN IF c # OK THEN c
     ELSE IF ~unique_together(insc, rec) THEN AlreadyRegistered
     ELSE OK

\* a save() that writes the row first and validates it afterwards
Inscricao_save_antes_de_validar(insc, rec) ==
  [kind |-> Inscricao_full_clean(insc, rec),
   insc |-> IF rec.pk = NoPk
              THEN insc \cup {[rec EXCEPT !.pk = nextPk]}
              ELSE {r \in insc : r.pk # rec.pk} \cup {rec}]

\* Inscricao.save: full_clean, then INSERT (no pk yet) or UPDATE (by pk)
Inscricao_save(insc, rec) ==
  LET k == Inscricao_full_clean(insc, rec)
  IN IF k # OK THEN [kind |-> k, insc |-> insc]
     ELSE IF rec.pk = NoPk
       THEN [kind |-> OK, insc |-> insc \cup {[rec EXCEPT !.pk = nextPk]}]
       ELSE [kind |-> OK, insc |-> {r \in insc : r.pk # rec.pk} \cup {rec}]

\* Inscricao.objects.create(evento_id=, participante_id=, status=)
Inscricao_create(insc, e, p, st, pres) ==
  Inscricao_save(insc, [pk |-> NoPk, evento |-> e, participante |-> p,
                        status |-> st, presenca_confirmada |-> pres])

\* on_delete=CASCADE of Certificado.inscricao
CascadeCert(cert, insc) == {c \in cert : c.inscricao \in Pks(insc)}

\* ------------------------------------------------------------------------
\* Certificado (src/api/models.py)
\* ------------------------------------------------------------------------
CertOf(cert, pk) == {c \in cert : c.inscricao = pk}

\* clean() that looks at the issuer only
Certificado_clean_sem_inscricao(insc, c) ==
  IF perfil[c.emitido_por] \notin {ADMIN, ORGANIZADOR} THEN PermissionDenied ELSE OK

Certificado_clean(insc, c) ==
  LET inscricao == Row(insc, c.inscricao)
  IN IF inscricao.status # CONFIRMADA THEN NotEligible
     ELSE IF ~inscricao.presenca_confirmada THEN NotEligible
     ELSE IF perfil[c.emitido_por] \notin {ADMIN, ORGANIZADOR} THEN PermissionDenied
     ELSE OK

\* OneToOneField(inscricao) and codigo unique=True, checked by validate_unique
Certificado_unique(cert, c) ==
  \A d \in cert :
    (d.inscricao = c.inscricao \/ d.codigo = c.codigo) => d.codigo = c.codigo

\* Certificado.save: full_clean (clean, validate_unique), then INSERT or UPDATE
Certificado_save(cert, insc, c, created) ==
  LET k == Certificado_clean(insc, c)
      row == IF created THEN [c EXCEPT !.codigo = nextCodigo] ELSE c
  IN IF k # OK THEN [kind |-> k, cert |-> cert]
     ELSE IF created /\ ~Certificado_unique(cert, row)
       THEN [kind |-> InvalidInput, cert |-> cert]
     ELSE [kind |-> OK, cert |-> {d \in cert : d.codigo # row.codigo} \cup {row}]

\* get_or_create: an existing certificate is returned as it is
get_or_create(cert, insc, pk, defaults) ==
  IF CertOf(cert, pk) # {}
    THEN [kind |-> OK, cert |-> cert]
    ELSE Certificado_save(cert, insc,
              [inscricao |-> pk, emitido_por |-> defaults.emitido_por,
               carga_horaria |-> defaults.carga_horaria,
               validade |-> defaults.validade,
               observacoes |-> defaults.observacoes, codigo |-> NoCert], TRUE)

\* Certificado.objects.update_or_create(inscricao=, defaults=)
update_or_create(cert, insc, pk, defaults) ==
  IF CertOf(cert, pk) # {}
    THEN LET old == CHOOSE c \in CertOf(cert, pk) : TRUE
         IN Certificado_save(cert, insc,
              [old EXCEPT !.emitido_por = defaults.emitido_por,
                          !.carga_horaria = defaults.carga_horaria,
                          !.validade = defaults.validade,
                          !.observacoes = defaults.observacoes], FALSE)
    ELSE Certificado_save(cert, insc,
              [inscricao |-> pk, emitido_por |-> defaults.emitido_por,
               carga_horaria |-> defaults.carga_horaria,
               validade |-> defaults.validade,
               observacoes |-> defaults.observacoes, codigo |-> NoCert], TRUE)

\* ------------------------------------------------------------------------
\* One request, start to finish: the rows it leaves and its outcome
\* ------------------------------------------------------------------------
Reject(kind) == [kind |-> kind, insc |-> inscricoes, cert |-> certificados]

\* a save that withdraws the certificate of a registration that is no longer
\* Confirmed and attended
Saved_invalida(sv) ==
  [kind |-> sv.kind, insc |-> sv.insc,
   cert |-> {c \in CascadeCert(certificados, sv.insc) :
               /\ Row(sv.insc, c.inscricao).status = CONFIRMADA
               /\ Row(sv.insc, c.inscricao).presenca_confirmada}]

\* outcome of a request whose only write is one Inscricao.save()
Saved(sv) ==
  [kind |-> sv.kind, insc |-> sv.insc, cert |-> CascadeCert(certificados, sv.insc)]

\* outcome of a request whose only write is one Certificado.save()
Issued(sv) == [kind |-> sv.kind, insc |-> inscricoes, cert |-> sv.cert]

Codigos(cert) == {c.codigo : c \in cert}

Apply(u, out) ==
  \E o \in {out} :
    /\ (nextPk \in Pks(o.insc)) => nextPk <= MaxPk
    /\ (nextCodigo \in Codigos(o.cert)) => nextCodigo <= MaxCert
    /\ inscricoes' = o.insc
    /\ nextPk' = IF nextPk \in Pks(o.insc) THEN nextPk + 1 ELSE nextPk
    /\ certificados' = o.cert
    /\ nextCodigo' = IF nextCodigo \in Codigos(o.cert) THEN nextCodigo + 1 ELSE nextCodigo
    /\ result' = [actor |-> u, kind |-> o.kind]
    /\ UNCHANGED <<usuarios, eventos, threads, audit, aviso>>

\* ------------------------------------------------------------------------
\* Web form /inscricao/ (src/api/views.py, InscricaoUsuarioView.post)
\* ------------------------------------------------------------------------
\* the status change both web forms apply to an existing registration
StatusUpdate(old, status) ==
  [old EXCEPT !.status = status,
              !.presenca_confirmada =
                 IF old.presenca_confirmada /\ old.status # status /\ status # CONFIRMADA
                   THEN FALSE ELSE old.presenca_confirmada]

\* the form taking the status of a self-registration from the request
InscricaoUsuarioView_out_status_do_form(u, e, p, st) ==
  LET self_service == perfil[u] \in {ALUNO, PROFESSOR}
      participante_id == IF self_service THEN u ELSE p
      existing == Existing(inscricoes, e, participante_id)
  IN
  IF perfil[u] = ORGANIZADOR /\ participante_id = u THEN Reject(RoleNotEligible)
  ELSE IF perfil[participante_id] \notin PerfisParticipante THEN Reject(RoleNotEligible)
  ELSE IF perfil[u] = ORGANIZADOR /\ eventos[e].organizador # u THEN Reject(PermissionDenied)
  ELSE IF existing # {} THEN
    IF perfil[u] \in {ADMIN, ORGANIZADOR}
      THEN Saved(Inscricao_save(inscricoes,
                   StatusUpdate(CHOOSE r \in existing : TRUE, st)))
      ELSE Reject(AlreadyRegistered)
  ELSE IF vagas_disponiveis(inscricoes, e) <= 0 /\ (st = CONFIRMADA \/ self_service)
    THEN Reject(CapacityExceeded)
  ELSE Saved(Inscricao_create(inscricoes, e, participante_id, st, FALSE))

InscricaoUsuarioView_out(u, e, p, st) ==
  LET self_service == perfil[u] \in {ALUNO, PROFESSOR}
      participante_id == IF self_service THEN u ELSE p
      status == IF self_service THEN PENDENTE ELSE st
      existing == Existing(inscricoes, e, participante_id)
  IN
  IF perfil[u] = ORGANIZADOR /\ participante_id = u THEN Reject(RoleNotEligible)
  ELSE IF perfil[participante_id] \notin PerfisParticipante THEN Reject(RoleNotEligible)
  ELSE IF perfil[participante_id] = ORGANIZADOR THEN Reject(RoleNotEligible)
  ELSE IF perfil[u] = ORGANIZADOR /\ eventos[e].organizador # u THEN Reject(PermissionDenied)
  ELSE IF existing # {} THEN
    IF perfil[u] \in {ADMIN, ORGANIZADOR}
      THEN Saved(Inscricao_save(inscricoes,
                   StatusUpdate(CHOOSE r \in existing : TRUE, status)))
      ELSE Reject(AlreadyRegistered)
  ELSE IF status = CONFIRMADA /\ vagas_disponiveis(inscricoes, e) <= 0
    THEN Reject(CapacityExceeded)
  ELSE IF self_service /\ vagas_disponiveis(inscricoes, e) <= 0
    THEN Reject(CapacityExceeded)
  ELSE Saved(Inscricao_create(inscricoes, e, participante_id, status, FALSE))

InscricaoUsuarioView_post(u, e, p, st) ==
  Apply(u, InscricaoUsuarioView_out(u, e, p, st))

\* ------------------------------------------------------------------------
\* Event page /eventos/<id>/ (src/api/views.py, DetalhesEventoView.post)
\* ------------------------------------------------------------------------
\* the manage branch up to the write: the checks the handler makes itself
DetalhesEventoView_check(u, e, p, st) ==
  IF perfil[u] = ORGANIZADOR /\ eventos[e].organizador # u THEN PermissionDenied
  ELSE IF perfil[u] \notin {ADMIN, ORGANIZADOR} THEN PermissionDenied
  ELSE IF perfil[p] \notin PerfisParticipante THEN RoleNotEligible
  ELSE IF perfil[p] = ORGANIZADOR THEN RoleNotEligible
  ELSE IF Existing(inscricoes, e, p) # {} THEN OK
  ELSE IF st = CONFIRMADA /\ vagas_disponiveis(inscricoes, e) <= 0 THEN CapacityExceeded
  ELSE OK

\* the row the manage branch hands to save(): the existing registration with
\* its new status, or a new one
DetalhesEventoView_row(e, p, st) ==
  LET existing == Existing(inscricoes, e, p)
  IN IF existing # {}
       THEN StatusUpdate(CHOOSE r \in existing : TRUE, st)
       ELSE [pk |-> NoPk, evento |-> e, participante |-> p,
             status |-> st, presenca_confirmada |-> FALSE]

DetalhesEventoView_out(u, e, cancel_inscricao, p, st) ==
  LET own == Existing(inscricoes, e, u)
  IN
  IF cancel_inscricao THEN
    IF perfil[u] \notin {ALUNO, PROFESSOR} THEN Reject(PermissionDenied)
    ELSE IF own = {} THEN Reject(NotFound)
    ELSE Saved(Inscricao_save(inscricoes,
                 [(CHOOSE r \in own : TRUE) EXCEPT !.status = CANCELADA]))
  ELSE IF DetalhesEventoView_check(u, e, p, st) # OK
    THEN Reject(DetalhesEventoView_check(u, e, p, st))
  ELSE Saved(Inscricao_save(inscricoes, DetalhesEventoView_row(e, p, st)))

DetalhesEventoView_post(u, e, cancel_inscricao, p, st) ==
  Apply(u, DetalhesEventoView_out(u, e, cancel_inscricao, p, st))

\* ------------------------------------------------------------------------
\* Attendance sheet /presenca/ (src/api/views.py, PresencaView.post)
\* ------------------------------------------------------------------------
MinPk(pks) == CHOOSE k \in pks : \A j \in pks : k <= j

\* the loop over the event's confirmed registrations: one save() per changed
\* row; an exception of a save() ends the loop and keeps the earlier writes
RECURSIVE PresencaLoop(_, _, _)
PresencaLoop(insc, pks, marcadas) ==
  IF pks = {} THEN [kind |-> OK, insc |-> insc]
  ELSE LET pk == MinPk(pks)
           r == Row(insc, pk)
           presenca_marcada == pk \in marcadas
       IN IF r.presenca_confirmada # presenca_marcada
            THEN LET sv == Inscricao_save(insc,
                              [r EXCEPT !.presenca_confirmada = presenca_marcada])
                 IN IF sv.kind # OK THEN sv
                    ELSE PresencaLoop(sv.insc, pks \ {pk}, marcadas)
            ELSE PresencaLoop(insc, pks \ {pk}, marcadas)

\* the attendance sheet without the test of the event's organizer
PresencaView_out_sem_dono(u, e, marcadas) ==
  IF perfil[u] \notin {ADMIN, ORGANIZADOR} THEN Reject(PermissionDenied)
  ELSE Saved(PresencaLoop(inscricoes, Pks(Confirmadas(inscricoes, e)), marcadas))

PresencaView_out(u, e, marcadas) ==
  IF perfil[u] \notin {ADMIN, ORGANIZADOR} THEN Reject(PermissionDenied)
  ELSE IF perfil[u] = ORGANIZADOR /\ eventos[e].organizador # u THEN Reject(PermissionDenied)
  ELSE Saved(PresencaLoop(inscricoes, Pks(Confirmadas(inscricoes, e)), marcadas))

PresencaView_post(u, e, marcadas) ==
  Apply(u, PresencaView_out(u, e, marcadas))

\* ------------------------------------------------------------------------
\* Certificate form /certificados/ (src/api/views.py, EmissaoCertificadoView.post)
\* ------------------------------------------------------------------------
\* data.get("observacoes", "").strip()
strip(s) == IF s = " obs " THEN "obs" ELSE s

EmissaoCertificadoView_out(u, pk, emissor, form) ==
  IF perfil[u] \notin {ADMIN, ORGANIZADOR} THEN Reject(PermissionDenied)
  ELSE IF form.carga_horaria <= 0 THEN Reject(InvalidInput)
  ELSE IF pk \notin Pks(inscricoes) THEN Reject(NotFound)
  ELSE LET inscricao == Row(inscricoes, pk)
       IN IF form.validade # NoDate /\ form.validade <= eventos[inscricao.evento].data_fim
            THEN Reject(InvalidValidityDate)
          ELSE IF perfil[u] = ORGANIZADOR /\ eventos[inscricao.evento].organizador # u
            THEN Reject(PermissionDenied)
          ELSE IF inscricao.status # CONFIRMADA \/ ~inscricao.presenca_confirmada
            THEN Reject(NotEligible)
          ELSE IF perfil[emissor] \notin {ADMIN, ORGANIZADOR} THEN Reject(InvalidInput)
          ELSE Issued(update_or_create(certificados, inscricoes, pk,
                        [emitido_por |-> emissor,
                         carga_horaria |-> form.carga_horaria,
                         validade |-> form.validade,
                         observacoes |-> strip(form.observacoes)]))

EmissaoCertificadoView_post(u, pk, emissor, form) ==
  Apply(u, EmissaoCertificadoView_out(u, pk, emissor, form))

\* ------------------------------------------------------------------------
\* Admin site, "add certificado" (src/api/admin.py, CertificadoAdmin): the
\* model form validates with full_clean and saves a new row
\* ------------------------------------------------------------------------
CertificadoAdmin_out(u, pk, emissor, form) ==
  IF u \notin Staff THEN Reject(PermissionDenied)
  ELSE IF pk \notin Pks(inscricoes) THEN Reject(NotFound)
  ELSE IF perfil[emissor] \notin {ADMIN, ORGANIZADOR} THEN Reject(InvalidInput)
  ELSE IF form.carga_horaria < 0 THEN Reject(InvalidInput)
  ELSE Issued(Certificado_save(certificados, inscricoes,
                [inscricao |-> pk, emitido_por |-> emissor,
                 carga_horaria |-> form.carga_horaria,
                 validade |-> form.validade,
                 observacoes |-> form.observacoes, codigo |-> NoCert], TRUE))

CertificadoAdmin_add(u, pk, emissor, form) ==
  Apply(u, CertificadoAdmin_out(u, pk, emissor, form))

\* ------------------------------------------------------------------------
\* REST endpoints (src/api/endpoints.py with src/api/serializers.py)
\* ------------------------------------------------------------------------
\* POST api/inscricoes/criar/
InscricaoCreateView_out(u, e) ==
  IF perfil[u] \notin {ALUNO, PROFESSOR} THEN Reject(PermissionDenied)
  ELSE IF perfil[u] = ORGANIZADOR THEN Reject(RoleNotEligible)
  ELSE IF perfil[u] \notin PerfisParticipante THEN Reject(RoleNotEligible)
  ELSE Saved(Inscricao_create(inscricoes, e, u, PENDENTE, FALSE))

InscricaoCreateView_create(u, e) ==
  Apply(u, InscricaoCreateView_out(u, e))

\* InscricaoManageSerializer.validate_participante
validate_participante(p) ==
  IF perfil[p] \notin PerfisParticipante THEN RoleNotEligible
  ELSE IF perfil[p] = ORGANIZADOR THEN RoleNotEligible
  ELSE OK

\* InscricaoManageSerializer.validate
InscricaoManageSerializer_validate(u, e) ==
  IF perfil[u] = ORGANIZADOR /\ eventos[e].organizador # u THEN PermissionDenied ELSE OK

\* CanManageInscricoes.has_permission
CanManageInscricoes(u) == perfil[u] \in {ORGANIZADOR, ADMIN}

\* POST api/inscricoes/gerenciar/
InscricaoManageCreateView_out(u, e, p, st, pres) ==
  LET rec == [pk |-> NoPk, evento |-> e, participante |-> p,
              status |-> st, presenca_confirmada |-> pres]
  IN
  IF ~CanManageInscricoes(u) THEN Reject(PermissionDenied)
  ELSE IF validate_participante(p) # OK THEN Reject(validate_participante(p))
  ELSE IF ~unique_together(inscricoes, rec) THEN Reject(AlreadyRegistered)
  ELSE IF InscricaoManageSerializer_validate(u, e) # OK
    THEN Reject(InscricaoManageSerializer_validate(u, e))
  ELSE Saved(Inscricao_save(inscricoes, rec))

InscricaoManageCreateView_create(u, e, p, st, pres) ==
  Apply(u, InscricaoManageCreateView_out(u, e, p, st, pres))

\* get_queryset of InscricaoUpdateView
InscricaoUpdateView_queryset(u) ==
  IF perfil[u] = ORGANIZADOR
    THEN {r \in inscricoes : eventos[r.evento].organizador = u}
    ELSE inscricoes

\* the instance after ModelSerializer.update has set the supplied attributes
\* (data.campos names the fields the request carries)
Patched(instance, data) ==
  [pk |-> instance.pk,
   evento |-> IF "evento" \in data.campos THEN data.evento ELSE instance.evento,
   participante |-> IF "participante" \in data.campos
                      THEN data.participante ELSE instance.participante,
   status |-> IF "status" \in data.campos THEN data.status ELSE instance.status,
   presenca_confirmada |-> IF "presenca_confirmada" \in data.campos
                             THEN data.presenca_confirmada
                             ELSE instance.presenca_confirmada]

\* PUT/PATCH api/inscricoes/<pk>/gerenciar/
InscricaoUpdateView_out(u, pk, data) ==
  IF ~CanManageInscricoes(u) THEN Reject(PermissionDenied)
  ELSE IF pk \notin Pks(InscricaoUpdateView_queryset(u)) THEN Reject(NotFound)
  ELSE LET instance == Row(inscricoes, pk)
           rec == Patched(instance, data)
       IN IF "participante" \in data.campos
             /\ validate_participante(data.participante) # OK
            THEN Reject(validate_participante(data.participante))
          ELSE IF ~unique_together(inscricoes, rec) THEN Reject(AlreadyRegistered)
          ELSE IF "evento" \in data.campos
                  /\ InscricaoManageSerializer_validate(u, data.evento) # OK
            THEN Reject(InscricaoManageSerializer_validate(u, data.evento))
          ELSE IF perfil[u] = ORGANIZADOR /\ eventos[instance.evento].organizador # u
            THEN Reject(PermissionDenied)
          ELSE Saved(Inscricao_save(inscricoes, rec))

InscricaoUpdateView_update(u, pk, data) ==
  Apply(u, InscricaoUpdateView_out(u, pk, data))

\* a permission test that lets any organizer cancel
can_cancel_qualquer_organizador(u, inscricao) ==
  \/ inscricao.participante = u
  \/ perfil[u] \in {ADMIN, ORGANIZADOR}

\* a permission test that lets every authenticated user cancel
can_cancel_qualquer_usuario(u, inscricao) == TRUE

\* the permission test of InscricaoCancelView.post
can_cancel(u, inscricao) ==
  \/ inscricao.participante = u
  \/ perfil[u] = ADMIN
  \/ perfil[u] = ORGANIZADOR /\ eventos[inscricao.evento].organizador = u

\* POST api/inscricoes/<pk>/cancelar/
InscricaoCancelView_out(u, pk) ==
  IF pk \notin Pks(inscricoes) THEN Reject(NotFound)
  ELSE IF ~can_cancel(u, Row(inscricoes, pk)) THEN Reject(PermissionDenied)
  ELSE Saved(Inscricao_save(inscricoes, [Row(inscricoes, pk) EXCEPT !.status = CANCELADA]))

InscricaoCancelView_post(u, pk) ==
  Apply(u, InscricaoCancelView_out(u, pk))

\* get_queryset of InscricaoDeleteView
InscricaoDeleteView_queryset(u) ==
  IF perfil[u] \in {ALUNO, PROFESSOR} THEN {r \in inscricoes : r.participante = u}
  ELSE IF perfil[u] = ORGANIZADOR
    THEN {r \in inscricoes : eventos[r.evento].organizador = u}
  ELSE inscricoes

\* CanCancelInscricao.has_object_permission
CanCancelInscricao(u, obj) ==
  \/ obj.participante = u
  \/ perfil[u] = ADMIN
  \/ perfil[u] = ORGANIZADOR /\ eventos[obj.evento].organizador = u

\* DELETE api/inscricoes/<pk>/deletar/
InscricaoDeleteView_out(u, pk) ==
  IF pk \notin Pks(InscricaoDeleteView_queryset(u)) THEN Reject(NotFound)
  ELSE IF ~CanCancelInscricao(u, Row(inscricoes, pk)) THEN Reject(PermissionDenied)
  ELSE LET rest == {r \in inscricoes : r.pk # pk}
       IN [kind |-> OK, insc |-> rest, cert |-> CascadeCert(certificados, rest)]

InscricaoDeleteView_destroy(u, pk) ==
  Apply(u, InscricaoDeleteView_out(u, pk))

\* ------------------------------------------------------------------------
\* Inputs offered to the requests
\* ------------------------------------------------------------------------
PkInputs == 1..MaxPk

\* users offered as the participant of a registration form
ParticipanteInputs == {"adm", "o1", "s1", "p1"}

\* users offered as the issuer of a certificate form
EmissorInputs == {"adm", "o1", "s1"}

\* the certificate forms offered: two valid ones, one with no hours, one
\* whose validity date is the event's last day
CertForms ==
  {[carga_horaria |-> 0, validade |-> NoDate, observacoes |-> ""],
   [carga_horaria |-> 1, validade |-> NoDate, observacoes |-> ""],
   [carga_horaria |-> 1, validade |-> DataFimInicial, observacoes |-> ""],
   [carga_horaria |-> MaxCarga, validade |-> DataFimInicial + 1, observacoes |-> " obs "]}

\* the form offered to the admin site's "add certificado" page
AdminForms == {[carga_horaria |-> 1, validade |-> NoDate, observacoes |-> ""]}

\* the partial updates offered to the manage-update endpoint: any change of
\* status and attendance, a move to another event, a change of participant
UpdateInputs ==
  {[campos |-> {"status"}, evento |-> "e1", participante |-> "s1",
    status |-> st, presenca_confirmada |-> FALSE] : st \in InscricaoStatus}
  \cup {[campos |-> {"presenca_confirmada"}, evento |-> "e1", participante |-> "s1",
         status |-> PENDENTE, presenca_confirmada |-> pres] : pres \in BOOLEAN}
  \cup {[campos |-> {"status", "presenca_confirmada"}, evento |-> "e1",
         participante |-> "s1", status |-> st, presenca_confirmada |-> pres] :
          st \in InscricaoStatus, pres \in BOOLEAN}
  \cup {[campos |-> {"evento"}, evento |-> e, participante |-> "s1",
         status |-> PENDENTE, presenca_confirmada |-> FALSE] : e \in EventoIds}
  \cup {[campos |-> {"participante"}, evento |-> "e1", participante |-> p,
         status |-> PENDENTE, presenca_confirmada |-> FALSE] : p \in ParticipanteInputs}

\* ------------------------------------------------------------------------
Init ==
  /\ usuarios = [u \in Usuarios |->
                   [perfil |-> perfil_inicial[u], instituicao |-> instituicao_inicial[u]]]
  /\ eventos = [e \in EventoIds |->
                  [capacidade |-> CapacidadeInicial,
                   organizador |-> IF e = "e1" THEN "o1" ELSE "o2",
                   data_fim |-> DataFimInicial,
                   data_inicio |-> DataInicioInicial,
                   professor_responsavel |-> NoUser]]
  /\ inscricoes = {}
  /\ nextPk = 1
  /\ certificados = {}
  /\ nextCodigo = 1
  /\ result = [actor |-> "none", kind |-> OK]
  /\ threads = [t \in ThreadIds |-> Idle]
  /\ audit = <<>>
  /\ aviso = FALSE

Next ==
  \/ \E u \in Usuarios, e \in EventoIds, p \in ParticipanteInputs, st \in InscricaoStatus :
       InscricaoUsuarioView_post(u, e, p, st)
  \/ \E u \in Usuarios, e \in EventoIds :
       DetalhesEventoView_post(u, e, TRUE, u, PENDENTE)
  \/ \E u \in Usuarios, e \in EventoIds, p \in ParticipanteInputs, st \in InscricaoStatus :
       DetalhesEventoView_post(u, e, FALSE, p, st)
  \/ \E u \in Usuarios, e \in EventoIds :
       \E marcadas \in SUBSET Pks(Confirmadas(inscricoes, e)) :
         PresencaView_post(u, e, marcadas)
  \/ \E u \in Usuarios, e \in EventoIds :
       InscricaoCreateView_create(u, e)
  \/ \E u \in Usuarios, e \in EventoIds, p \in ParticipanteInputs,
        st \in InscricaoStatus, pres \in BOOLEAN :
       InscricaoManageCreateView_create(u, e, p, st, pres)
  \/ \E u \in Usuarios, pk \in PkInputs, data \in UpdateInputs :
       InscricaoUpdateView_update(u, pk, data)
  \/ \E u \in Usuarios, pk \in PkInputs :
       InscricaoCancelView_post(u, pk)
  \/ \E u \in Usuarios, pk \in PkInputs :
       InscricaoDeleteView_destroy(u, pk)

Spec == Init /\ [][Next]_vars

\* ------------------------------------------------------------------------
\* Two requests to the event page served at once. Inscricao.save runs
\* full_clean, whose capacity count is one query, and then writes the row
\* with another; the handler opens no transaction and takes no lock, so
\* the other request can run between the two.
\* ------------------------------------------------------------------------
\* DetalhesEventoView.post down to the end of full_clean
DetalhesEventoView_full_clean(t, u, e, p, st) ==
  /\ threads[t].pc = "idle"
  /\ LET k == DetalhesEventoView_check(u, e, p, st)
         rec == DetalhesEventoView_row(e, p, st)
         c == IF k # OK THEN k ELSE Inscricao_full_clean(inscricoes, rec)
     IN IF c # OK
          THEN /\ result' = [actor |-> u, kind |-> c]
               /\ UNCHANGED threads
          ELSE /\ threads' = [threads EXCEPT ![t] = [pc |-> "save", actor |-> u, rec |-> rec]]
               /\ UNCHANGED result
  /\ UNCHANGED <<usuarios, eventos, inscricoes, nextPk, certificados, nextCodigo, audit, aviso>>

\* super().save(): the INSERT or UPDATE; the table's unique index on
\* (evento, participante) refuses a second row for the pair
Inscricao_super_save(t) ==
  /\ threads[t].pc = "save"
  /\ LET rec == threads[t].rec
     IN IF rec.pk # NoPk
          THEN /\ inscricoes' = {r \in inscricoes : r.pk # rec.pk} \cup {rec}
               /\ result' = [actor |-> threads[t].actor, kind |-> OK]
               /\ UNCHANGED nextPk
          ELSE IF Existing(inscricoes, rec.evento, rec.participante) # {}
            THEN /\ result' = [actor |-> threads[t].actor, kind |-> InvalidInput]
                 /\ UNCHANGED <<inscricoes, nextPk>>
          ELSE /\ nextPk <= MaxPk
               /\ inscricoes' = inscricoes \cup {[rec EXCEPT !.pk = nextPk]}
               /\ nextPk' = nextPk + 1
               /\ result' = [actor |-> threads[t].actor, kind |-> OK]
  /\ threads' = [threads EXCEPT ![t] = Idle]
  /\ UNCHANGED <<usuarios, eventos, certificados, nextCodigo, audit, aviso>>

\* the users, the event and the participants of the concurrent requests
ConcAtores == {"adm", "o2"}
ConcEventos == {"e1"}
ConcParticipantes == {"s1", "p1"}

NextConc ==
  \/ \E t \in ThreadIds, u \in ConcAtores, e \in ConcEventos,
        p \in ConcParticipantes, st \in InscricaoStatus :
       DetalhesEventoView_full_clean(t, u, e, p, st)
  \/ \E t \in ThreadIds : Inscricao_super_save(t)

SpecConc == Init /\ [][NextConc]_vars

\* ------------------------------------------------------------------------
\* manage.py emitir_certificados (src/api/management/commands):
\* for every event that ended before hoje, every Confirmed, attended
\* registration with no certificate gets Certificado.objects.create(
\* inscricao=, carga_horaria=evento.carga_horaria). Evento has no attribute
\* carga_horaria, so evaluating the arguments raises AttributeError: the
\* command stops at the first such registration, before any row is written.
\* ------------------------------------------------------------------------
inscricoes_aptas(hoje) ==
  {r \in inscricoes : /\ eventos[r.evento].data_fim < hoje
                       /\ r.status = CONFIRMADA
                       /\ r.presenca_confirmada}

emitir_certificados_out(hoje) ==
  IF \E r \in inscricoes_aptas(hoje) : CertOf(certificados, r.pk) = {}
    THEN Reject(ServerError)
    ELSE [kind |-> OK, insc |-> inscricoes, cert |-> certificados]

emitir_certificados_handle(hoje) ==
  Apply(NoUser, emitir_certificados_out(hoje))

\* the dates the command is run on: the event's last day and the day after
HojeInputs == {DataFimInicial, DataFimInicial + 1}

\* the participants and the event the certificate lifecycle registers
CertParticipantes == {"s1", "p1"}
CertEventos == {"e1"}

\* the certificate lifecycle: the event page, the attendance sheet and the
\* delete endpoint move registrations, the certificate form and the admin
\* site issue certificates
NextCert ==
  \/ \E u \in Usuarios, e \in CertEventos, p \in CertParticipantes, st \in InscricaoStatus :
       DetalhesEventoView_post(u, e, FALSE, p, st)
  \/ \E u \in Usuarios, e \in CertEventos :
       \E marcadas \in SUBSET Pks(Confirmadas(inscricoes, e)) :
         PresencaView_post(u, e, marcadas)
  \/ \E u \in Usuarios, pk \in PkInputs :
       InscricaoDeleteView_destroy(u, pk)
  \/ \E u \in Usuarios, pk \in PkInputs, emissor \in EmissorInputs, form \in CertForms :
       EmissaoCertificadoView_post(u, pk, emissor, form)
  \/ \E u \in Usuarios, pk \in PkInputs, emissor \in EmissorInputs, form \in AdminForms :
       CertificadoAdmin_add(u, pk, emissor, form)
  \/ \E hoje \in HojeInputs : emitir_certificados_handle(hoje)

SpecCert == Init /\ [][NextCert]_vars

\* ------------------------------------------------------------------------
\* Audit trail (src/api/audit.py, src/api/signals.py) and the messages and
\* mail of a request. The specifications above follow the Inscricao and
\* Certificado tables; SpecAudit follows the AuditLog table as well.
\* ------------------------------------------------------------------------
\* the AuditLog row of a log_action call (status: the status its descricao /
\* dados_extras carries, "" when it carries none)
Entrada(acao, usuario, inscricao, pk, codigo, status) ==
  [acao |-> acao, usuario |-> usuario, usuario_afetado |-> inscricao.participante,
   evento |-> inscricao.evento, inscricao |-> pk, certificado |-> codigo,
   status |-> status]

\* post_save receiver of Inscricao
log_inscricao_save(instance, created) ==
  IF created
    THEN Entrada(INSCRICAO_CRIADA, NoUser, instance, instance.pk, NoCert, "")
    ELSE Entrada(INSCRICAO_ATUALIZADA, NoUser, instance, instance.pk, NoCert,
                 instance.status)

\* post_save receiver of Certificado: one call when the row was created
log_certificado_save(insc, certificado, created) ==
  IF created
    THEN <<Entrada(CERTIFICADO_GERADO, NoUser, Row(insc, certificado.inscricao),
                   NoPk, certificado.codigo, "")>>
    ELSE <<>>

log_inscricao_criada(u, inscricao) ==
  Entrada(INSCRICAO_CRIADA, u, inscricao, inscricao.pk, NoCert, inscricao.status)

log_inscricao_atualizada(u, inscricao) ==
  Entrada(INSCRICAO_ATUALIZADA, u, inscricao, inscricao.pk, NoCert, inscricao.status)

log_inscricao_cancelada(u, inscricao) ==
  Entrada(INSCRICAO_CANCELADA, u, inscricao, inscricao.pk, NoCert, "")

log_certificado_gerado(u, insc, certificado) ==
  Entrada(CERTIFICADO_GERADO, u, Row(insc, certificado.inscricao),
          NoPk, certificado.codigo, "")

\* log_action without the try around AuditLog.objects.create
log_action_sem_try(entrada, falha) ==
  [raised |-> falha, rows |-> IF falha THEN <<>> ELSE <<entrada>>]

\* log_action: AuditLog.objects.create inside try/except; falha says that
\* the create raises
log_action(entrada, falha) ==
  [raised |-> FALSE, rows |-> IF falha THEN <<>> ELSE <<entrada>>]

\* the log_action calls of one request, in order (falhas: the calls whose
\* create raises); a call that raises ends the request
RECURSIVE RunLog(_, _, _)
RunLog(log, falhas, i) ==
  IF i > Len(log) THEN [raised |-> FALSE, rows |-> <<>>]
  ELSE LET c == log_action(log[i], i \in falhas)
       IN IF c.raised THEN c
          ELSE LET rest == RunLog(log, falhas, i + 1)
               IN [raised |-> rest.raised, rows |-> c.rows \o rest.rows]

\* on_delete=SET_NULL of AuditLog.inscricao and AuditLog.certificado
SET_NULL(log, insc, cert) ==
  [i \in 1..Len(log) |->
     [log[i] EXCEPT !.inscricao = IF @ \in Pks(insc) THEN @ ELSE NoPk,
                    !.certificado = IF @ \in Codigos(cert) THEN @ ELSE NoCert]]

\* a request whole: the rows it leaves, its outcome, the AuditLog table and
\* the warning it leaves
Efeito(out, log, falhas, av) ==
  LET run == RunLog(log, falhas, 1)
  IN [kind |-> IF run.raised THEN ServerError ELSE out.kind,
      insc |-> out.insc, cert |-> out.cert,
      audit |-> SET_NULL(audit, out.insc, out.cert) \o run.rows,
      aviso |-> av]

ApplyEfeito(u, efeito) ==
  \E ef \in {efeito} :
    /\ Len(ef.audit) <= MaxAudit
    /\ (nextPk \in Pks(ef.insc)) => nextPk <= MaxPk
    /\ (nextCodigo \in Codigos(ef.cert)) => nextCodigo <= MaxCert
    /\ inscricoes' = ef.insc
    /\ nextPk' = IF nextPk \in Pks(ef.insc) THEN nextPk + 1 ELSE nextPk
    /\ certificados' = ef.cert
    /\ nextCodigo' = IF nextCodigo \in Codigos(ef.cert) THEN nextCodigo + 1 ELSE nextCodigo
    /\ result' = [actor |-> u, kind |-> ef.kind]
    /\ audit' = ef.audit
    /\ aviso' = ef.aviso
    /\ UNCHANGED <<usuarios, eventos, threads>>

\* the registration of (e, p) a request has just saved
Salva(out, e, p) == CHOOSE r \in Existing(out.insc, e, p) : TRUE

\* /inscricao/ form: the post_save receiver only
InscricaoUsuarioView_efeito(u, e, p, st, falhas) ==
  LET out == InscricaoUsuarioView_out(u, e, p, st)
      alvo == IF perfil[u] \in {ALUNO, PROFESSOR} THEN u ELSE p
      existing == Existing(inscricoes, e, alvo)
      status == IF perfil[u] \in {ALUNO, PROFESSOR} THEN PENDENTE ELSE st
      chegou == /\ perfil[u] \in {ADMIN, ORGANIZADOR}
                /\ perfil[alvo] \in PerfisParticipante
                /\ ~(perfil[u] = ORGANIZADOR /\ eventos[e].organizador # u)
                /\ existing # {}
  IN Efeito(out,
            IF out.kind # OK THEN <<>>
            ELSE <<log_inscricao_save(Salva(out, e, alvo), existing = {})>>,
            falhas,
            chegou /\ \E r \in existing : r.presenca_confirmada /\ r.status # status)

\* event page: the receiver, then the handler's own log call
DetalhesEventoView_efeito(u, e, cancel_inscricao, p, st, falhas) ==
  LET out == DetalhesEventoView_out(u, e, cancel_inscricao, p, st)
      alvo == IF cancel_inscricao THEN u ELSE p
      existing == Existing(inscricoes, e, alvo)
      salva == Salva(out, e, alvo)
  IN Efeito(out,
            IF out.kind # OK THEN <<>>
            ELSE IF cancel_inscricao
              THEN <<log_inscricao_save(salva, FALSE), log_inscricao_cancelada(u, salva)>>
            ELSE IF existing # {}
              THEN <<log_inscricao_save(salva, FALSE), log_inscricao_atualizada(u, salva)>>
            ELSE <<log_inscricao_save(salva, TRUE), log_inscricao_criada(u, salva)>>,
            falhas,
            /\ ~cancel_inscricao
            /\ DetalhesEventoView_check(u, e, p, st) = OK
            /\ \E r \in existing :
                 r.presenca_confirmada /\ r.status # st /\ st # CONFIRMADA)

\* the rows a request changed, lowest pk first
RECURSIVE EmOrdem(_)
EmOrdem(rows) ==
  IF rows = {} THEN <<>>
  ELSE LET r == CHOOSE x \in rows : \A y \in rows : x.pk <= y.pk
       IN <<r>> \o EmOrdem(rows \ {r})

\* attendance sheet: the receiver once per row saved
PresencaView_efeito(u, e, marcadas, falhas) ==
  LET out == PresencaView_out(u, e, marcadas)
      salvas == EmOrdem(out.insc \ inscricoes)
  IN Efeito(out,
            [i \in 1..Len(salvas) |-> log_inscricao_save(salvas[i], FALSE)],
            falhas, FALSE)

\* views.py 908-914 without the try around enviar_email_certificado
EmissaoCertificadoView_email_sem_try(out, email_ok) ==
  [kind |-> IF out.kind = OK /\ ~email_ok THEN ServerError ELSE out.kind,
   aviso |-> FALSE]

\* enviar_email_certificado re-raises what send_mail raises; the handler
\* catches it and leaves a warning (email_ok: send_mail succeeds)
EmissaoCertificadoView_email(out, email_ok) ==
  [kind |-> out.kind, aviso |-> out.kind = OK /\ ~email_ok]

\* certificate form: the receiver when the row is new, the handler's log
\* call, then the mail
EmissaoCertificadoView_efeito(u, pk, emissor, form, falhas, email_ok) ==
  LET out == EmissaoCertificadoView_out(u, pk, emissor, form)
      certificado == CHOOSE c \in CertOf(out.cert, pk) : TRUE
      log == IF out.kind # OK THEN <<>>
             ELSE log_certificado_save(inscricoes, certificado,
                                       CertOf(certificados, pk) = {})
                    \o <<log_certificado_gerado(u, inscricoes, certificado)>>
      run == RunLog(log, falhas, 1)
      email == IF run.raised THEN [kind |-> out.kind, aviso |-> FALSE]
               ELSE EmissaoCertificadoView_email(out, email_ok)
  IN Efeito([out EXCEPT !.kind = email.kind], log, falhas, email.aviso)

\* REST self-registration and manage-create: the receiver, then
\* log_inscricao_criada
InscricaoCreateView_efeito(u, e, falhas) ==
  LET out == InscricaoCreateView_out(u, e)
  IN Efeito(out,
            IF out.kind # OK THEN <<>>
            ELSE <<log_inscricao_save(Salva(out, e, u), TRUE),
                   log_inscricao_criada(u, Salva(out, e, u))>>,
            falhas, FALSE)

InscricaoManageCreateView_efeito(u, e, p, st, pres, falhas) ==
  LET out == InscricaoManageCreateView_out(u, e, p, st, pres)
  IN Efeito(out,
            IF out.kind # OK THEN <<>>
            ELSE <<log_inscricao_save(Salva(out, e, p), TRUE),
                   log_inscricao_criada(u, Salva(out, e, p))>>,
            falhas, FALSE)

\* REST manage-update and cancel: the receiver only
InscricaoUpdateView_efeito(u, pk, data, falhas) ==
  LET out == InscricaoUpdateView_out(u, pk, data)
  IN Efeito(out,
            IF out.kind # OK THEN <<>>
            ELSE <<log_inscricao_save(Row(out.insc, pk), FALSE)>>,
            falhas, FALSE)

InscricaoCancelView_efeito(u, pk, falhas) ==
  LET out == InscricaoCancelView_out(u, pk)
  IN Efeito(out,
            IF out.kind # OK THEN <<>>
            ELSE <<log_inscricao_save(Row(out.insc, pk), FALSE)>>,
            falhas, FALSE)

\* REST delete: no receiver listens to post_delete and the view logs nothing
InscricaoDeleteView_efeito(u, pk, falhas) ==
  Efeito(InscricaoDeleteView_out(u, pk), <<>>, falhas, FALSE)

\* admin site, AuditLog change list, "delete selected" with every row
\* selected: has_delete_permission lets a superuser through only
AuditLogAdmin_delete_queryset(u) ==
  /\ inscricoes' = inscricoes
  /\ certificados' = certificados
  /\ audit' = IF u \in Staff THEN <<>> ELSE audit
  /\ result' = [actor |-> u, kind |-> IF u \in Staff THEN OK ELSE PermissionDenied]
  /\ aviso' = FALSE
  /\ UNCHANGED <<usuarios, eventos, nextPk, nextCodigo, threads>>

\* the users, the participant, the issuers and the forms of SpecAudit
AuditAtores == {"adm", "s1"}
AuditEventos == {"e1"}
AuditParticipantes == {"s1"}
AuditEmissores == {"adm", "o2"}
AuditForms ==
  {[carga_horaria |-> 1, validade |-> NoDate, observacoes |-> ""],
   [carga_horaria |-> MaxCarga, validade |-> DataFimInicial + 1, observacoes |-> " obs "]}
AuditUpdates == {d \in UpdateInputs : d.campos \subseteq {"status", "presenca_confirmada"}}
Falhas == SUBSET (1..MaxAudit)

NextAudit ==
  \/ \E u \in AuditAtores, e \in AuditEventos, p \in AuditParticipantes,
        st \in InscricaoStatus, falhas \in Falhas :
       ApplyEfeito(u, InscricaoUsuarioView_efeito(u, e, p, st, falhas))
  \/ \E u \in AuditAtores, e \in AuditEventos, falhas \in Falhas :
       ApplyEfeito(u, DetalhesEventoView_efeito(u, e, TRUE, u, PENDENTE, falhas))
  \/ \E u \in AuditAtores, e \in AuditEventos, p \in AuditParticipantes,
        st \in InscricaoStatus, falhas \in Falhas :
       ApplyEfeito(u, DetalhesEventoView_efeito(u, e, FALSE, p, st, falhas))
  \/ \E u \in AuditAtores, e \in AuditEventos, falhas \in Falhas :
       \E marcadas \in SUBSET Pks(Confirmadas(inscricoes, e)) :
         ApplyEfeito(u, PresencaView_efeito(u, e, marcadas, falhas))
  \/ \E u \in AuditAtores, pk \in PkInputs, emissor \in AuditEmissores,
        form \in AuditForms, falhas \in Falhas, email_ok \in BOOLEAN :
       ApplyEfeito(u, EmissaoCertificadoView_efeito(u, pk, emissor, form, falhas, email_ok))
  \/ \E u \in AuditAtores, e \in AuditEventos, falhas \in Falhas :
       ApplyEfeito(u, InscricaoCreateView_efeito(u, e, falhas))
  \/ \E u \in AuditAtores, e \in AuditEventos, p \in AuditParticipantes,
        st \in InscricaoStatus, pres \in BOOLEAN, falhas \in Falhas :
       ApplyEfeito(u, InscricaoManageCreateView_efeito(u, e, p, st, pres, falhas))
  \/ \E u \in AuditAtores, pk \in PkInputs, data \in AuditUpdates, falhas \in Falhas :
       ApplyEfeito(u, InscricaoUpdateView_efeito(u, pk, data, falhas))
  \/ \E u \in AuditAtores, pk \in PkInputs, falhas \in Falhas :
       ApplyEfeito(u, InscricaoCancelView_efeito(u, pk, falhas))
  \/ \E u \in AuditAtores, pk \in PkInputs, falhas \in Falhas :
       ApplyEfeito(u, InscricaoDeleteView_efeito(u, pk, falhas))
  \/ \E u \in AuditAtores : AuditLogAdmin_delete_queryset(u)

SpecAudit == Init /\ [][NextAudit]_vars

\* ------------------------------------------------------------------------
\* Evento (src/api/models.py) and the requests that write it: the web forms
\* CadastroEventoView, EditarEventoView, DeletarEventoView (src/api/views.py)
\* and the REST endpoints EventoCreateView, EventoUpdateView,
\* EventoDeleteView (src/api/endpoints.py, src/api/serializers.py)
\* ------------------------------------------------------------------------
\* Evento.clean
Evento_clean(ev) ==
  IF ev.data_fim < ev.data_inicio THEN InvalidInput
  ELSE IF perfil[ev.organizador] \notin {ADMIN, ORGANIZADOR} THEN InvalidInput
  ELSE IF ev.professor_responsavel # NoUser /\ perfil[ev.professor_responsavel] # PROFESSOR
    THEN InvalidInput
  ELSE OK

\* Meta.constraints: evento_data_fim_gte_inicio and capacidade_positive
Evento_constraints(ev) == ev.data_fim >= ev.data_inicio /\ ev.capacidade > 0

\* Evento.save: full_clean (clean, then the constraints; a database that
\* checks them itself refuses the row all the same), then the write
Evento_save(ev) ==
  IF Evento_clean(ev) # OK THEN Evento_clean(ev)
  ELSE IF ~Evento_constraints(ev) THEN InvalidInput
  ELSE OK

\* on_delete=CASCADE of Inscricao.evento
CascadeInsc(insc, ev) == {r \in insc : r.evento \in DOMAIN ev}

\* outcome of a request that wrote nothing
RejectEvento(kind) ==
  [kind |-> kind, ev |-> eventos, insc |-> inscricoes, cert |-> certificados]

\* outcome of a request that stored the row ev under id
SavedEvento(id, ev) ==
  IF Evento_save(ev) # OK THEN RejectEvento(Evento_save(ev))
  ELSE [kind |-> OK,
        ev |-> [x \in DOMAIN eventos \cup {id} |-> IF x = id THEN ev ELSE eventos[x]],
        insc |-> inscricoes, cert |-> certificados]

\* outcome of evento.delete(): the row, its registrations and their certificates
DeletedEvento(id) ==
  LET ev == [x \in DOMAIN eventos \ {id} |-> eventos[x]]
      insc == CascadeInsc(inscricoes, ev)
  IN [kind |-> OK, ev |-> ev, insc |-> insc, cert |-> CascadeCert(certificados, insc)]

\* the end of a request that may have written the Evento table
ApplyEvento(u, out) ==
  /\ eventos' = out.ev
  /\ inscricoes' = out.insc
  /\ certificados' = out.cert
  /\ result' = [actor |-> u, kind |-> out.kind]
  /\ UNCHANGED <<usuarios, nextPk, nextCodigo, threads, audit, aviso>>

\* the row a form asks for
EventoDoForm(form, organizador) ==
  [capacidade |-> form.capacidade, organizador |-> organizador,
   data_fim |-> form.data_fim, data_inicio |-> form.data_inicio,
   professor_responsavel |-> form.professor_responsavel]

\* date.today() of the requests
date_today == DataInicioInicial

\* the id the next created event gets
NovoEvento == "e3"

\* POST /cadastro-eventos/
CadastroEventoView_out(u, form) ==
  IF perfil[u] \notin {ADMIN, ORGANIZADOR} THEN RejectEvento(PermissionDenied)
  ELSE IF form.capacidade <= 0 THEN RejectEvento(InvalidInput)
  ELSE IF perfil[u] = ADMIN /\ perfil[form.organizador] \notin {ADMIN, ORGANIZADOR}
    THEN RejectEvento(InvalidInput)
  ELSE IF perfil[form.professor_responsavel] # PROFESSOR THEN RejectEvento(InvalidInput)
  ELSE IF form.data_inicio < date_today THEN RejectEvento(InvalidInput)
  ELSE SavedEvento(NovoEvento,
         EventoDoForm(form, IF perfil[u] = ADMIN THEN form.organizador ELSE u))

CadastroEventoView_post(u, form) ==
  /\ NovoEvento \notin DOMAIN eventos
  /\ ApplyEvento(u, CadastroEventoView_out(u, form))

\* POST api/eventos/criar/ (EventoSerializer: organizador_id is looked up
\* among the Admins and Organizers)
EventoCreateView_out(u, form) ==
  IF perfil[u] \notin {ORGANIZADOR, ADMIN} THEN RejectEvento(PermissionDenied)
  ELSE IF form.capacidade < 0 THEN RejectEvento(InvalidInput)
  ELSE IF perfil[form.organizador] \notin {ADMIN, ORGANIZADOR}
    THEN RejectEvento(InvalidInput)
  ELSE IF perfil[form.professor_responsavel] # PROFESSOR THEN RejectEvento(InvalidInput)
  ELSE SavedEvento(NovoEvento, EventoDoForm(form, form.organizador))

EventoCreateView_create(u, form) ==
  /\ NovoEvento \notin DOMAIN eventos
  /\ ApplyEvento(u, EventoCreateView_out(u, form))

\* POST /eventos/<id>/editar/
EditarEventoView_out(u, e, form) ==
  IF perfil[u] \notin {ADMIN, ORGANIZADOR, PROFESSOR} THEN RejectEvento(PermissionDenied)
  ELSE IF e \notin DOMAIN eventos THEN RejectEvento(NotFound)
  ELSE IF perfil[u] = ORGANIZADOR /\ eventos[e].organizador # u
    THEN RejectEvento(PermissionDenied)
  ELSE IF perfil[u] = PROFESSOR /\ eventos[e].professor_responsavel # u
    THEN RejectEvento(PermissionDenied)
  ELSE IF form.capacidade <= 0 THEN RejectEvento(InvalidInput)
  ELSE IF perfil[form.organizador] \notin {ADMIN, ORGANIZADOR}
    THEN RejectEvento(InvalidInput)
  ELSE IF perfil[form.professor_responsavel] # PROFESSOR THEN RejectEvento(InvalidInput)
  ELSE SavedEvento(e, EventoDoForm(form, form.organizador))

EditarEventoView_post(u, e, form) ==
  ApplyEvento(u, EditarEventoView_out(u, e, form))

\* CanManageEvents.has_permission
CanManageEvents(u) == perfil[u] \in {ORGANIZADOR, ADMIN}

\* get_queryset of EventoUpdateView and EventoDeleteView
EventoUpdateView_queryset(u) ==
  IF perfil[u] = ORGANIZADOR
    THEN {e \in DOMAIN eventos : eventos[e].organizador = u}
    ELSE DOMAIN eventos

\* the instance with the fields of a PATCH (EventoUpdateSerializer.Meta.fields)
PatchedEvento(instance, data) ==
  [instance EXCEPT
     !.capacidade = IF "capacidade" \in data.campos THEN data.capacidade ELSE @,
     !.data_fim = IF "data_fim" \in data.campos THEN data.data_fim ELSE @]

\* PATCH api/eventos/<pk>/editar/
EventoUpdateView_out(u, e, data) ==
  IF ~CanManageEvents(u) THEN RejectEvento(PermissionDenied)
  ELSE IF e \notin EventoUpdateView_queryset(u) THEN RejectEvento(NotFound)
  ELSE IF "capacidade" \in data.campos /\ data.capacidade < 0
    THEN RejectEvento(InvalidInput)
  ELSE SavedEvento(e, PatchedEvento(eventos[e], data))

EventoUpdateView_update(u, e, data) ==
  ApplyEvento(u, EventoUpdateView_out(u, e, data))

\* DELETE api/eventos/<pk>/deletar/
EventoDeleteView_out(u, e) ==
  IF ~CanManageEvents(u) THEN RejectEvento(PermissionDenied)
  ELSE IF e \notin EventoUpdateView_queryset(u) THEN RejectEvento(NotFound)
  ELSE DeletedEvento(e)

EventoDeleteView_destroy(u, e) ==
  ApplyEvento(u, EventoDeleteView_out(u, e))

\* POST /eventos/<id>/deletar/
DeletarEventoView_out(u, e) ==
  IF perfil[u] \notin {ADMIN, ORGANIZADOR} THEN RejectEvento(PermissionDenied)
  ELSE IF e \notin DOMAIN eventos THEN RejectEvento(NotFound)
  ELSE IF perfil[u] = ORGANIZADOR /\ eventos[e].organizador # u
    THEN RejectEvento(PermissionDenied)
  ELSE DeletedEvento(e)

DeletarEventoView_post(u, e) ==
  ApplyEvento(u, DeletarEventoView_out(u, e))

\* get_object_or_404(Evento, pk=evento_id) of the event page, for an id
\* that has no row
DetalhesEventoView_404(u, e) ==
  /\ e \notin DOMAIN eventos
  /\ Apply(u, Reject(NotFound))

\* the forms offered to the event requests: the rows the fixture's event can
\* become, and one form for each check that refuses
EventoForms ==
  {[capacidade |-> c, data_inicio |-> DataInicioInicial, data_fim |-> DataFimInicial,
    organizador |-> o, professor_responsavel |-> "p1"] :
      c \in {CapacidadeInicial, CapacidadeInicial + 1}, o \in {"o1", "o2"}}
  \cup
  {[capacidade |-> 0, data_inicio |-> DataInicioInicial, data_fim |-> DataFimInicial,
    organizador |-> "o1", professor_responsavel |-> "p1"],
   [capacidade |-> CapacidadeInicial, data_inicio |-> DataFimInicial + 1,
    data_fim |-> DataFimInicial,
    organizador |-> "o1", professor_responsavel |-> "p1"],
   [capacidade |-> CapacidadeInicial, data_inicio |-> DataInicioInicial,
    data_fim |-> DataFimInicial,
    organizador |-> "s1", professor_responsavel |-> "p1"],
   [capacidade |-> CapacidadeInicial, data_inicio |-> DataInicioInicial,
    data_fim |-> DataFimInicial,
    organizador |-> "o1", professor_responsavel |-> "s1"]}

\* the bodies offered to the REST update
EventoPatches ==
  {[campos |-> {"capacidade"}, capacidade |-> c, data_fim |-> NoDate] :
      c \in {0, CapacidadeInicial, CapacidadeInicial + 1}}
  \cup
  {[campos |-> {"data_fim"}, capacidade |-> 0, data_fim |-> d] :
      d \in {DataInicioInicial - 1, DataFimInicial + 1}}

\* the events the edit requests name, and the events the delete requests name
EventoEditados == {"e1"}
EventoApagados == {"e1", NovoEvento}
EventoParticipantes == {"s1", "p1"}

\* events are created, edited and deleted while the Admin registers
\* participants for the edited event on the event page
NextEvento ==
  \/ \E e \in EventoEditados : DetalhesEventoView_404("adm", e)
  \/ \E u \in Usuarios, form \in EventoForms : CadastroEventoView_post(u, form)
  \/ \E u \in Usuarios, form \in EventoForms : EventoCreateView_create(u, form)
  \/ \E u \in Usuarios, e \in EventoEditados, form \in EventoForms :
       EditarEventoView_post(u, e, form)
  \/ \E u \in Usuarios, e \in EventoEditados, data \in EventoPatches :
       EventoUpdateView_update(u, e, data)
  \/ \E u \in Usuarios, e \in EventoApagados : EventoDeleteView_destroy(u, e)
  \/ \E u \in Usuarios, e \in EventoApagados : DeletarEventoView_post(u, e)
  \/ \E e \in EventoEditados, p \in EventoParticipantes, st \in InscricaoStatus :
       /\ e \in DOMAIN eventos
       /\ DetalhesEventoView_post("adm", e, FALSE, p, st)

SpecEvento == Init /\ [][NextEvento]_vars

\* ------------------------------------------------------------------------
\* Usuario (src/api/models.py) and the requests that write it: SignupView,
\* CadastroUsuarioView, PerfilUsuarioView (src/api/views.py) and the admin
\* site's UsuarioAdmin (src/api/admin.py)
\* ------------------------------------------------------------------------
\* a Usuario.clean that accepts every row
Usuario_clean_sem_instituicao(rec) == OK

\* Usuario.clean
Usuario_clean(rec) ==
  IF rec.perfil \in {ALUNO, PROFESSOR} /\ rec.instituicao = NoInst
    THEN InvalidInput
    ELSE OK

\* Meta.constraints: instituicao_required_for_aluno_prof
Usuario_constraints(rec) ==
  rec.perfil \notin {ALUNO, PROFESSOR} \/ rec.instituicao # NoInst

\* outcome of a request that wrote no user
RejectUsuario(kind) == [kind |-> kind, us |-> usuarios]

\* Usuario.objects.create_user: save() runs no full_clean; the database
\* refuses a username that exists and a row that breaks the constraint
\* (IntegrityError, which both forms report as an error)
create_user(id, rec) ==
  IF id \in DOMAIN usuarios THEN RejectUsuario(InvalidInput)
  ELSE IF ~Usuario_constraints(rec) THEN RejectUsuario(InvalidInput)
  ELSE [kind |-> OK,
        us |-> [x \in DOMAIN usuarios \cup {id} |-> IF x = id THEN rec ELSE usuarios[x]]]

\* the end of a request that may have written the Usuario table; a deleted
\* user takes its registrations and their certificates along (CASCADE)
ApplyUsuario(u, out) ==
  LET insc == {r \in inscricoes : r.participante \in DOMAIN out.us}
  IN /\ usuarios' = out.us
     /\ inscricoes' = insc
     /\ certificados' = CascadeCert(certificados, insc)
     /\ result' = [actor |-> u, kind |-> out.kind]
     /\ UNCHANGED <<eventos, nextPk, nextCodigo, threads, audit, aviso>>

\* POST /signup/
SignupView_out(id, pf, inst) ==
  IF pf \notin {ALUNO, PROFESSOR, ORGANIZADOR} THEN RejectUsuario(InvalidInput)
  ELSE IF pf \in {ALUNO, PROFESSOR} /\ inst = NoInst THEN RejectUsuario(InvalidInput)
  ELSE create_user(id, [perfil |-> pf, instituicao |-> inst])

SignupView_post(id, pf, inst) ==
  ApplyUsuario(NoUser, SignupView_out(id, pf, inst))

\* POST /cadastro-usuarios/
CadastroUsuarioView_out(u, id, pf, inst) ==
  IF perfil[u] # ADMIN THEN RejectUsuario(PermissionDenied)
  ELSE IF pf \notin PerfilChoices THEN RejectUsuario(InvalidInput)
  ELSE IF pf \in {ALUNO, PROFESSOR} /\ inst = NoInst THEN RejectUsuario(InvalidInput)
  ELSE create_user(id, [perfil |-> pf, instituicao |-> inst])

CadastroUsuarioView_post(u, id, pf, inst) ==
  /\ u \in DOMAIN usuarios
  /\ ApplyUsuario(u, CadastroUsuarioView_out(u, id, pf, inst))

\* POST /perfil/ without action=delete: the profile update
PerfilUsuarioView_out(u, inst) ==
  IF perfil[u] \in {ALUNO, PROFESSOR} /\ inst = NoInst THEN RejectUsuario(InvalidInput)
  ELSE [kind |-> OK,
        us |-> [usuarios EXCEPT ![u].instituicao = IF inst # NoInst THEN inst ELSE @]]

PerfilUsuarioView_post(u, inst) ==
  /\ u \in DOMAIN usuarios
  /\ ApplyUsuario(u, PerfilUsuarioView_out(u, inst))

\* on_delete=PROTECT of Evento.organizador, Evento.professor_responsavel and
\* Certificado.emitido_por
Protegido(u) ==
  \/ \E e \in DOMAIN eventos :
       eventos[e].organizador = u \/ eventos[e].professor_responsavel = u
  \/ \E c \in certificados : c.emitido_por = u

\* POST /perfil/ with action=delete: user.delete(), no exception caught
PerfilUsuarioView_delete_out(u) ==
  IF Protegido(u) THEN RejectUsuario(ServerError)
  ELSE [kind |-> OK, us |-> [x \in DOMAIN usuarios \ {u} |-> usuarios[x]]]

PerfilUsuarioView_delete(u) ==
  /\ u \in DOMAIN usuarios
  /\ ApplyUsuario(u, PerfilUsuarioView_delete_out(u))

\* admin site, add user: UsuarioCreationForm validates the row (full_clean)
UsuarioAdmin_add_out(u, id, pf, inst) ==
  LET rec == [perfil |-> pf, instituicao |-> inst]
  IN IF u \notin Staff THEN RejectUsuario(PermissionDenied)
     ELSE IF id \in DOMAIN usuarios THEN RejectUsuario(InvalidInput)
     ELSE IF Usuario_clean(rec) # OK THEN RejectUsuario(Usuario_clean(rec))
     ELSE create_user(id, rec)

UsuarioAdmin_add(u, id, pf, inst) ==
  /\ u \in DOMAIN usuarios
  /\ ApplyUsuario(u, UsuarioAdmin_add_out(u, id, pf, inst))

\* admin site, change user: UsuarioChangeForm offers perfil and instituicao
\* and validates the row (full_clean), then saves it
UsuarioAdmin_change_out(u, alvo, pf, inst) ==
  LET rec == [perfil |-> pf, instituicao |-> inst]
  IN IF u \notin Staff THEN RejectUsuario(PermissionDenied)
     ELSE IF alvo \notin DOMAIN usuarios THEN RejectUsuario(NotFound)
     ELSE IF Usuario_clean(rec) # OK THEN RejectUsuario(Usuario_clean(rec))
     ELSE IF ~Usuario_constraints(rec) THEN RejectUsuario(ServerError)
     ELSE [kind |-> OK, us |-> [usuarios EXCEPT ![alvo] = rec]]

UsuarioAdmin_change(u, alvo, pf, inst) ==
  /\ u \in DOMAIN usuarios
  /\ ApplyUsuario(u, UsuarioAdmin_change_out(u, alvo, pf, inst))

\* the username the created accounts get, the institutions typed into the
\* forms, the users that post their profile, the users that ask for the
\* user forms of the Admin and of the admin site, the users that delete
\* their account, and the users the admin site changes
NovosUsuarios == {"n1"}
InstituicoesDoForm == {NoInst} \cup InstituicaoChoices
UsuarioAtores == {"adm", "o1", "s1", "p1", "n1"}
UsuarioGestores == {"adm", "s1"}
UsuarioApagados == {"o1", "s1", "n1"}
UsuarioAlterados == {"o1", "n1"}

\* accounts are created, updated and deleted, with the fixture's events
NextUsuario ==
  \/ \E id \in NovosUsuarios, pf \in PerfilChoices, inst \in InstituicoesDoForm :
       SignupView_post(id, pf, inst)
  \/ \E u \in UsuarioGestores, id \in NovosUsuarios, pf \in PerfilChoices,
        inst \in InstituicoesDoForm :
       CadastroUsuarioView_post(u, id, pf, inst)
  \/ \E u \in UsuarioAtores, inst \in InstituicoesDoForm : PerfilUsuarioView_post(u, inst)
  \/ \E u \in UsuarioApagados : PerfilUsuarioView_delete(u)
  \/ \E u \in UsuarioGestores, id \in NovosUsuarios, pf \in PerfilChoices,
        inst \in InstituicoesDoForm :
       UsuarioAdmin_add(u, id, pf, inst)
  \/ \E u \in UsuarioGestores, alvo \in UsuarioAlterados, pf \in PerfilChoices,
        inst \in InstituicoesDoForm :
       UsuarioAdmin_change(u, alvo, pf, inst)

SpecUsuario == Init /\ [][NextUsuario]_vars

\* ------------------------------------------------------------------------
\* Deletion: registrations with certificates, while registrations and the
\* event itself are deleted
\* ------------------------------------------------------------------------
\* the users that send the requests, the user named as issuer
ExclusaoAtores == {"adm", "s1"}
ExclusaoEmissores == {"adm"}

\* the enrollment operations on the event's registrations, the certificate
\* form, and the two ways of deleting the event
NextExclusao ==
  \/ \E e \in CertEventos : DetalhesEventoView_404("adm", e)
  \/ \E u \in ExclusaoAtores, e \in CertEventos, cancel_inscricao \in BOOLEAN,
        p \in CertParticipantes, st \in InscricaoStatus :
       /\ e \in DOMAIN eventos
       /\ DetalhesEventoView_post(u, e, cancel_inscricao, p, st)
  \/ \E u \in ExclusaoAtores, e \in CertEventos :
       /\ e \in DOMAIN eventos
       /\ \E marcadas \in SUBSET Pks(Confirmadas(inscricoes, e)) :
            PresencaView_post(u, e, marcadas)
  \/ \E u \in ExclusaoAtores, pk \in PkInputs : InscricaoCancelView_post(u, pk)
  \/ \E u \in ExclusaoAtores, pk \in PkInputs : InscricaoDeleteView_destroy(u, pk)
  \/ \E u \in ExclusaoAtores, pk \in PkInputs, emissor \in ExclusaoEmissores,
        form \in AdminForms :
       EmissaoCertificadoView_post(u, pk, emissor, form)
  \/ \E u \in ExclusaoAtores, e \in CertEventos : DeletarEventoView_post(u, e)
  \/ \E u \in ExclusaoAtores, e \in CertEventos : EventoDeleteView_destroy(u, e)

SpecExclusao == Init /\ [][NextExclusao]_vars



\* ------------------------------------------------------------------------
\* Properties
\* ------------------------------------------------------------------------
\* a request that was refused and wrote nothing
Refused(out) == out.kind # OK /\ out.insc = inscricoes /\ out.cert = certificados

\* the registration is Confirmed and its attendance is confirmed
Elegivel(insc, pk) ==
  /\ pk \in Pks(insc)
  /\ Row(insc, pk).status = CONFIRMADA
  /\ Row(insc, pk).presenca_confirmada

\* C1: the capacity of an event being fixed, the number of its Confirmed
\* registrations is at most its capacity in every state reached by any
\* sequence of registration forms, REST manage calls and cancellations.
C1_ConfirmedWithinCapacity ==
  \A e \in EventoIds :
    Cardinality(Confirmadas(inscricoes, e)) <= eventos[e].capacidade

\* a confirmation was refused for lack of seats on a full event
C1_Witness ==
  /\ result.kind = CapacityExceeded
  /\ \E e \in EventoIds :
       Cardinality(Confirmadas(inscricoes, e)) = eventos[e].capacidade

\* C2: when two requests that each confirm a different registration of the
\* same event are served at once with one seat left, at most one of them
\* succeeds: the seats left on the event never become negative.
C2_ConcurrentConfirmationsWithinCapacity ==
  \A e \in ConcEventos :
    eventos[e].capacidade - Cardinality(Confirmadas(inscricoes, e)) >= 0

\* C3: after every operation on registrations, a registration's
\* presenca_confirmada is true only if its status is Confirmed.
C3_AttendanceOnlyIfConfirmed ==
  \A r \in inscricoes : r.presenca_confirmada => r.status = CONFIRMADA

\* an attended registration exists and a request that would have left
\* attendance on a registration that is not Confirmed was refused
C3_Witness ==
  /\ result.kind = PresencaInvalida
  /\ \E r \in inscricoes : r.presenca_confirmada
\* a certificate form the certificate view accepts for the registration
FormularioValido(form, pk) ==
  /\ form.carga_horaria > 0
  /\ \/ form.validade = NoDate
     \/ form.validade > eventos[Row(inscricoes, pk).evento].data_fim

\* the user may issue certificates for the registration's event
PodeEmitir(u, pk) ==
  \/ perfil[u] = ADMIN
  \/ perfil[u] = ORGANIZADOR /\ eventos[Row(inscricoes, pk).evento].organizador = u

\* C4: issuing a certificate for a registration that is not Confirmed or has
\* no confirmed attendance is refused and creates no Certificate; for a
\* Confirmed, attended registration the same issuance succeeds and the
\* Certificate has a non-empty code no other Certificate has. Every step
\* that creates or overwrites a Certificate starts with its registration
\* Confirmed and attended.
C4_CertificateRequiresEligibility ==
  /\ [](\A u \in Usuarios, pk \in Pks(inscricoes), emissor \in EmissorInputs :
          /\ ~Elegivel(inscricoes, pk) =>
               /\ \A form \in CertForms :
                    Refused(EmissaoCertificadoView_out(u, pk, emissor, form))
               /\ \A form \in AdminForms :
                    Refused(CertificadoAdmin_out(u, pk, emissor, form))
          /\ (/\ Elegivel(inscricoes, pk)
              /\ PodeEmitir(u, pk)
              /\ perfil[emissor] \in {ADMIN, ORGANIZADOR}) =>
               \A form \in CertForms :
                 FormularioValido(form, pk) =>
                   LET out == EmissaoCertificadoView_out(u, pk, emissor, form)
                   IN /\ out.kind = OK
                      /\ \E c \in out.cert :
                           /\ c.inscricao = pk
                           /\ c.codigo # NoCert
                           /\ \A d \in out.cert : d.codigo = c.codigo => d = c)
  /\ [][\A c \in certificados' \ certificados :
          /\ Elegivel(inscricoes, c.inscricao)
          /\ c.codigo # NoCert
          /\ \A d \in certificados' : d.codigo = c.codigo => d = c]_vars

\* a certificate has been issued to a Confirmed, attended registration after
\* an attempt was refused
C4_Witness ==
  /\ result.kind = OK
  /\ \E c \in certificados : Elegivel(inscricoes, c.inscricao) /\ c.codigo # NoCert

\* C5: a successful call of the certificate form leaves exactly one
\* Certificate for the registration, holding the issuer, hours, validity date
\* and notes of that call, and the same call made again changes nothing.
C5_IssueIsIdempotentUpsert ==
  [][(result'.kind = OK /\ inscricoes' = inscricoes) =>
       \A u \in Usuarios, pk \in PkInputs, emissor \in EmissorInputs, form \in CertForms :
         (u = result'.actor /\ EmissaoCertificadoView_post(u, pk, emissor, form)) =>
           /\ Cardinality(CertOf(certificados', pk)) = 1
           /\ \A c \in CertOf(certificados', pk) :
                /\ c.emitido_por = emissor
                /\ c.carga_horaria = form.carga_horaria
                /\ c.validade = form.validade
                /\ c.observacoes = strip(form.observacoes)
           /\ certificados' \ CertOf(certificados', pk)
                = certificados \ CertOf(certificados, pk)
           /\ EmissaoCertificadoView_out(u, pk, emissor, form)'
                = [kind |-> OK, insc |-> inscricoes', cert |-> certificados']
    ]_vars

\* the only certificate carries the values of the second form offered, and
\* the code of a first issuance
C5_Witness ==
  /\ result.kind = OK
  /\ nextCodigo = 2
  /\ \E c \in certificados :
       /\ c.codigo = 1
       /\ c.carga_horaria = MaxCarga
       /\ c.observacoes = "obs"
       /\ c.emitido_por = "o1"

\* C6: every (event, participant) pair has at most one Registration; a
\* request to register a pair that has one creates no second row.
C6_OneRegistrationPerPair ==
  \A r1 \in inscricoes, r2 \in inscricoes :
    (r1.evento = r2.evento /\ r1.participante = r2.participante) => r1 = r2

\* a registration exists and a request for an existing pair was refused
C6_Witness ==
  /\ result.kind = AlreadyRegistered
  /\ inscricoes # {}

\* users whose profile bars them from being registered
Inelegiveis == {p \in ParticipanteInputs : perfil[p] \in {ORGANIZADOR, ADMIN}}

\* the user may register others for the event
PodeInscrever(u, e) ==
  \/ perfil[u] = ADMIN
  \/ perfil[u] = ORGANIZADOR /\ eventos[e].organizador = u

\* C7 as stated: a request to register an Organizer or Admin is refused with
\* the role-eligibility error whoever makes it and through whichever entry
\* point.
C7_AlwaysRoleNotEligible ==
  \A u \in Usuarios, e \in EventoIds, p \in Inelegiveis, st \in InscricaoStatus :
    /\ perfil[u] \in {ADMIN, ORGANIZADOR} =>
         InscricaoUsuarioView_out(u, e, p, st).kind = RoleNotEligible
    /\ DetalhesEventoView_out(u, e, FALSE, p, st).kind = RoleNotEligible
    /\ \A pres \in BOOLEAN :
         InscricaoManageCreateView_out(u, e, p, st, pres).kind = RoleNotEligible
    /\ u = p => InscricaoCreateView_out(u, e).kind = RoleNotEligible

\* C7: a request to register an Organizer or Admin is always refused and
\* writes nothing. The error is the role-eligibility error on the
\* registration form, on the event page when the acting user may register
\* others for the event, and on REST manage-create when the acting user is an
\* Organizer or Admin; otherwise it is a permission error, as it is on REST
\* self-registration. No Registration has a participant whose profile is
\* other than Student or Professor.
C7_IneligibleParticipantRefused ==
  /\ \A r \in inscricoes : perfil[r.participante] \in {ALUNO, PROFESSOR}
  /\ \A u \in Usuarios, e \in EventoIds, p \in Inelegiveis, st \in InscricaoStatus :
       /\ perfil[u] \in {ADMIN, ORGANIZADOR} =>
            LET out == InscricaoUsuarioView_out(u, e, p, st)
            IN Refused(out) /\ out.kind = RoleNotEligible
       /\ LET out == DetalhesEventoView_out(u, e, FALSE, p, st)
          IN /\ Refused(out)
             /\ out.kind = IF PodeInscrever(u, e) THEN RoleNotEligible
                           ELSE PermissionDenied
       /\ \A pres \in BOOLEAN :
            LET out == InscricaoManageCreateView_out(u, e, p, st, pres)
            IN /\ Refused(out)
               /\ out.kind = IF perfil[u] \in {ADMIN, ORGANIZADOR} THEN RoleNotEligible
                             ELSE PermissionDenied
       /\ u = p =>
            LET out == InscricaoCreateView_out(u, e)
            IN Refused(out) /\ out.kind = PermissionDenied

\* the Admin's request to register an ineligible user was refused while
\* registrations exist
C7_Witness ==
  /\ result = [actor |-> "adm", kind |-> RoleNotEligible]
  /\ inscricoes # {}

\* C8: a request that is refused leaves the Registration and Certificate
\* rows exactly as they were.
C8_RefusedWritesNothing ==
  [][result'.kind # OK =>
       (inscricoes' = inscricoes /\ certificados' = certificados)]_vars

\* a confirmation was refused for lack of seats on an event whose only seat
\* is taken by a registration that holds a certificate
C8_Witness ==
  /\ result.kind = CapacityExceeded
  /\ \E r \in Confirmadas(inscricoes, "e1") : CertOf(certificados, r.pk) # {}

\* C9: whatever an Organizer asks about a registration of an event of
\* another Organizer (create, change status or attendance, cancel, delete,
\* move a registration to that event) is refused and writes nothing, on the
\* forms and on the REST endpoints.
C9_OrganizerOwnEventsOnly ==
  \A u \in Usuarios, e \in EventoIds :
    (perfil[u] = ORGANIZADOR /\ eventos[e].organizador # u) =>
      /\ \A p \in ParticipanteInputs, st \in InscricaoStatus :
           /\ Refused(InscricaoUsuarioView_out(u, e, p, st))
           /\ Refused(DetalhesEventoView_out(u, e, FALSE, p, st))
           /\ \A pres \in BOOLEAN :
                Refused(InscricaoManageCreateView_out(u, e, p, st, pres))
      /\ Refused(DetalhesEventoView_out(u, e, TRUE, u, PENDENTE))
      /\ \A marcadas \in SUBSET Pks(Confirmadas(inscricoes, e)) :
           Refused(PresencaView_out(u, e, marcadas))
      /\ \A r \in inscricoes :
           /\ r.evento = e =>
                /\ \A data \in UpdateInputs : Refused(InscricaoUpdateView_out(u, r.pk, data))
                /\ Refused(InscricaoCancelView_out(u, r.pk))
                /\ Refused(InscricaoDeleteView_out(u, r.pk))
           /\ \A data \in UpdateInputs :
                ("evento" \in data.campos /\ data.evento = e) =>
                  Refused(InscricaoUpdateView_out(u, r.pk, data))

\* Organizer o2, who has no registration on an event of its own, was refused
\* while the event of Organizer o1 has a registration
C9_Witness ==
  /\ result.actor = "o2"
  /\ result.kind \in {PermissionDenied, NotFound}
  /\ inscricoes # {}
  /\ \A r \in inscricoes : eventos[r.evento].organizador = "o1"

\* C10: a step that creates a Registration creates it with
\* presenca_confirmada false.
C10_NewRegistrationNotAttended ==
  [][\A r \in inscricoes' :
       r.pk \notin Pks(inscricoes) => ~r.presenca_confirmada]_vars

\* C11: once a registration is Cancelled it stays Cancelled: no later
\* request, by any user through any entry point, moves it to Pending or to
\* Confirmed.
C11_CancelledIsTerminal ==
  [][\A r \in inscricoes :
       r.status = CANCELADA =>
         \A r2 \in inscricoes' : r2.pk = r.pk => r2.status = CANCELADA]_vars

\* a request that only sets the status of registration pk
SoStatus(st) ==
  [campos |-> {"status"}, evento |-> "e1", participante |-> "s1",
   status |-> st, presenca_confirmada |-> FALSE]

\* the request succeeded and left registration pk out of Confirmed with its
\* attendance reset
SaiuSemPresenca(out, pk) ==
  /\ out.kind = OK
  /\ \E r2 \in out.insc :
       r2.pk = pk /\ r2.status # CONFIRMADA /\ ~r2.presenca_confirmada

\* C12: for a Confirmed registration whose attendance is confirmed, every
\* request that moves it to Cancelled or Pending succeeds and resets the
\* attendance in the same write: the participant's own cancellation on the
\* event page and on the REST cancel endpoint, REST manage-update, and the
\* two web forms used by the Admin.
C12_LeavingConfirmedResetsAttendance ==
  \A r \in inscricoes :
    (r.status = CONFIRMADA /\ r.presenca_confirmada) =>
      /\ SaiuSemPresenca(
           DetalhesEventoView_out(r.participante, r.evento, TRUE, r.participante, PENDENTE),
           r.pk)
      /\ SaiuSemPresenca(InscricaoCancelView_out(r.participante, r.pk), r.pk)
      /\ \A st \in {PENDENTE, CANCELADA} :
           /\ SaiuSemPresenca(InscricaoUpdateView_out("adm", r.pk, SoStatus(st)), r.pk)
           /\ SaiuSemPresenca(
                DetalhesEventoView_out("adm", r.evento, FALSE, r.participante, st), r.pk)
           /\ SaiuSemPresenca(
                InscricaoUsuarioView_out("adm", r.evento, r.participante, st), r.pk)

\* the request succeeded and left registration pk Cancelled
Cancelou(out, pk) ==
  /\ out.kind = OK
  /\ \E r2 \in out.insc : r2.pk = pk /\ r2.status = CANCELADA

\* C13: a Student or Professor who asks to cancel or delete the registration
\* of another participant is refused and nothing is written, and no request
\* of a Student or Professor adds, removes or changes a registration of
\* another participant. The Admin is never refused permission to cancel: the
\* REST cancel endpoint cancels any registration whose attendance is not
\* confirmed, and the event page cancels any registration.
C13_ParticipantOwnRegistrationOnly ==
  /\ [](\A r \in inscricoes, u \in Usuarios :
          /\ (perfil[u] \in {ALUNO, PROFESSOR} /\ u # r.participante) =>
               /\ Refused(InscricaoCancelView_out(u, r.pk))
               /\ Refused(InscricaoDeleteView_out(u, r.pk))
          /\ perfil[u] = ADMIN =>
               /\ InscricaoCancelView_out(u, r.pk).kind \notin {PermissionDenied, NotFound}
               /\ ~r.presenca_confirmada => Cancelou(InscricaoCancelView_out(u, r.pk), r.pk)
               /\ Cancelou(DetalhesEventoView_out(u, r.evento, FALSE, r.participante, CANCELADA),
                           r.pk))
  /\ [][perfil[result'.actor] \in {ALUNO, PROFESSOR} =>
          \A r \in inscricoes \cup inscricoes' :
            r.participante # result'.actor => (r \in inscricoes /\ r \in inscricoes')]_vars

\* Student s1 was refused permission while s1 and Professor p1 each hold a
\* registration
C13_Witness ==
  /\ result = [actor |-> "s1", kind |-> PermissionDenied]
  /\ \E r \in inscricoes : r.participante = "p1"
  /\ \E r \in inscricoes : r.participante = "s1"

\* C14: the attendance flag of a registration changes only in a request of
\* the Admin or of the Organizer of the registration's event, and a
\* registration whose flag was set, or that was created with the flag set, is
\* Confirmed. The attendance sheet of event e keeps every registration,
\* its status, event and participant, and changes the flag only of Confirmed
\* registrations of e.
C14_AttendanceByManagersOnly ==
  /\ [](\A u \in Usuarios, e \in EventoIds :
          \A marcadas \in SUBSET Pks(Confirmadas(inscricoes, e)) :
            LET out == PresencaView_out(u, e, marcadas)
            IN /\ Pks(out.insc) = Pks(inscricoes)
               /\ \A r \in inscricoes :
                    LET r2 == Row(out.insc, r.pk)
                    IN /\ r2.status = r.status
                       /\ r2.evento = r.evento
                       /\ r2.participante = r.participante
                       /\ r2 # r => /\ r.evento = e
                                    /\ r.status = CONFIRMADA
                                    /\ PodeInscrever(u, e))
  /\ [][/\ \A r \in inscricoes, r2 \in inscricoes' :
             (r2.pk = r.pk /\ r2.presenca_confirmada # r.presenca_confirmada) =>
               /\ PodeInscrever(result'.actor, r.evento)
               /\ r2.presenca_confirmada => r2.status = CONFIRMADA
        /\ \A r2 \in inscricoes' :
             (r2.pk \notin Pks(inscricoes) /\ r2.presenca_confirmada) =>
               /\ PodeInscrever(result'.actor, r2.evento)
               /\ r2.status = CONFIRMADA]_vars

\* Organizer o1 has marked the attendance of a registration of its event e1
\* while a registration of event e2 is not attended
C14_Witness ==
  /\ result = [actor |-> "o1", kind |-> OK]
  /\ \E r \in inscricoes : r.evento = "e1" /\ r.presenca_confirmada
  /\ \E r \in inscricoes : r.evento = "e2" /\ ~r.presenca_confirmada

\* C15: every Certificate written by the certificate form has an issuer
\* whose profile is Organizer or Admin, and an issuer who is an Organizer is
\* the Organizer of the event of the certificate's registration.
C15_IssuerOwnsEvent ==
  \A c \in certificados :
    /\ perfil[c.emitido_por] \in {ORGANIZADOR, ADMIN}
    /\ perfil[c.emitido_por] = ORGANIZADOR =>
         \A r \in inscricoes :
           r.pk = c.inscricao => eventos[r.evento].organizador = c.emitido_por

\* C16: when the mail of the certificate form fails, the request has the
\* outcome and leaves the Certificate rows it has when the mail is sent: a
\* successful issuance stays successful, its Certificate is stored with the
\* issuer, hours, validity date and notes asked for, and the caller gets a
\* warning, which it does not get when the mail is sent.
C16_MailFailureKeepsCertificate ==
  \A u \in AuditAtores, pk \in PkInputs, emissor \in AuditEmissores,
     form \in AuditForms, falhas \in Falhas :
    LET falhou == EmissaoCertificadoView_efeito(u, pk, emissor, form, falhas, FALSE)
        enviou == EmissaoCertificadoView_efeito(u, pk, emissor, form, falhas, TRUE)
    IN /\ falhou.kind = enviou.kind
       /\ falhou.cert = enviou.cert
       /\ falhou.insc = enviou.insc
       /\ ~enviou.aviso
       /\ falhou.aviso = (falhou.kind = OK)
       /\ falhou.kind = OK =>
            \E c \in falhou.cert :
              /\ c.inscricao = pk
              /\ c.emitido_por = emissor
              /\ c.carga_horaria = form.carga_horaria
              /\ c.validade = form.validade
              /\ c.observacoes = strip(form.observacoes)

\* the certificate form succeeded with a warning and the certificate of the
\* Confirmed, attended registration is stored
C16_Witness ==
  /\ aviso
  /\ result.kind = OK
  /\ \E c \in certificados : Elegivel(inscricoes, c.inscricao)

Registrou(ef, acoes) ==
  \E i \in (Len(audit) + 1)..Len(ef.audit) : ef.audit[i].acao \in acoes

\* C18: with the audit sink working, every request that succeeds in
\* creating, updating, cancelling or deleting a registration, changing an
\* attendance or issuing a certificate adds an AuditLog row of the matching
\* kind (for a cancellation: cancelled or updated; for a delete: any row).
C18_EveryMutationIsAudited ==
  \A u \in AuditAtores :
    /\ \A e \in AuditEventos, p \in AuditParticipantes, st \in InscricaoStatus :
         /\ LET ef == InscricaoUsuarioView_efeito(u, e, p, st, {})
            IN ef.kind = OK => Registrou(ef, {INSCRICAO_CRIADA, INSCRICAO_ATUALIZADA})
         /\ LET ef == DetalhesEventoView_efeito(u, e, FALSE, p, st, {})
            IN ef.kind = OK => Registrou(ef, {INSCRICAO_CRIADA, INSCRICAO_ATUALIZADA})
         /\ \A pres \in BOOLEAN :
              LET ef == InscricaoManageCreateView_efeito(u, e, p, st, pres, {})
              IN ef.kind = OK => Registrou(ef, {INSCRICAO_CRIADA})
    /\ \A e \in AuditEventos :
         /\ LET ef == DetalhesEventoView_efeito(u, e, TRUE, u, PENDENTE, {})
            IN ef.kind = OK => Registrou(ef, {INSCRICAO_CANCELADA, INSCRICAO_ATUALIZADA})
         /\ LET ef == InscricaoCreateView_efeito(u, e, {})
            IN ef.kind = OK => Registrou(ef, {INSCRICAO_CRIADA})
         /\ \A marcadas \in SUBSET Pks(Confirmadas(inscricoes, e)) :
              LET ef == PresencaView_efeito(u, e, marcadas, {})
              IN (ef.kind = OK /\ ef.insc # inscricoes) =>
                   Registrou(ef, {INSCRICAO_ATUALIZADA})
    /\ \A pk \in PkInputs :
         /\ LET ef == InscricaoCancelView_efeito(u, pk, {})
            IN ef.kind = OK => Registrou(ef, {INSCRICAO_CANCELADA, INSCRICAO_ATUALIZADA})
         /\ LET ef == InscricaoDeleteView_efeito(u, pk, {})
            IN ef.kind = OK => Len(ef.audit) > Len(audit)
         /\ \A data \in AuditUpdates :
              LET ef == InscricaoUpdateView_efeito(u, pk, data, {})
              IN ef.kind = OK => Registrou(ef, {INSCRICAO_ATUALIZADA})
         /\ \A emissor \in AuditEmissores, form \in AuditForms :
              LET ef == EmissaoCertificadoView_efeito(u, pk, emissor, form, {}, TRUE)
              IN ef.kind = OK => Registrou(ef, {CERTIFICADO_GERADO})

\* the step is the deletion of AuditLog rows on the admin site by a superuser
Expurgo ==
  /\ result'.actor \in Staff
  /\ audit' = <<>>
  /\ inscricoes' = inscricoes
  /\ certificados' = certificados

\* C19: no step changes a field of an AuditLog row that exists,
\* the deletion of the registration or certificate it refers to included,
\* and no step of a user who is not a superuser removes a row.
C19_AuditRowsNeverChange ==
  [][~Expurgo =>
       /\ Len(audit') >= Len(audit)
       /\ \A i \in 1..Len(audit) : audit'[i] = audit[i]]_vars

\* C20: after a run of the command on any date, every Confirmed, attended
\* registration of an event that ended before that date has exactly one
\* Certificate; no Certificate exists for a registration that had none and
\* is not such a registration; the Certificates that existed are unchanged.
C20_SweepIssuesMissingCertificates ==
  \A hoje \in HojeInputs :
    LET out == emitir_certificados_out(hoje)
    IN /\ \A r \in inscricoes_aptas(hoje) : Cardinality(CertOf(out.cert, r.pk)) = 1
       /\ \A c \in out.cert \ certificados :
            \E r \in inscricoes_aptas(hoje) : r.pk = c.inscricao
       /\ certificados \subseteq out.cert

\* C21: a run of the command ends normally on every date, whatever the
\* registrations are: a registration whose certificate cannot be issued is
\* skipped and every other Confirmed, attended registration of an ended
\* event has its certificate afterwards.
C21_SweepToleratesFailures ==
  \A hoje \in HojeInputs :
    LET out == emitir_certificados_out(hoje)
    IN /\ out.kind = OK
       /\ \A r \in inscricoes_aptas(hoje), q \in inscricoes_aptas(hoje) :
            (r.pk # q.pk /\ CertOf(out.cert, r.pk) = {}) => CertOf(out.cert, q.pk) # {}

\* a successful request added exactly one row: a Pending, not attended
\* registration of participant p for event e
NovaPendente(out, e, p) ==
  /\ out.kind = OK
  /\ \E r \in out.insc \ inscricoes :
       /\ out.insc = inscricoes \cup {r}
       /\ r.pk \notin Pks(inscricoes)
       /\ r.evento = e /\ r.participante = p
       /\ r.status = PENDENTE /\ ~r.presenca_confirmada

\* a successful cancellation keeps the row, with status CANCELADA; a
\* successful delete removes it
CancelaMasNaoApaga ==
  \A u \in Usuarios, pk \in PkInputs :
    /\ LET out == InscricaoCancelView_out(u, pk)
       IN out.kind = OK =>
            /\ Pks(out.insc) = Pks(inscricoes)
            /\ Row(out.insc, pk).status = CANCELADA
    /\ LET out == InscricaoDeleteView_out(u, pk)
       IN out.kind = OK => out.insc = {r \in inscricoes : r.pk # pk}
    /\ \A e \in EventoIds :
         LET out == DetalhesEventoView_out(u, e, TRUE, u, PENDENTE)
         IN out.kind = OK =>
              /\ Pks(out.insc) = Pks(inscricoes)
              /\ \E r \in out.insc :
                   r.evento = e /\ r.participante = u /\ r.status = CANCELADA

\* while the Cancelled row of a participant exists, the participant's own
\* register for the event is refused as already registered
CanceladaBloqueia ==
  \A r \in inscricoes :
    r.status = CANCELADA =>
      /\ LET out == InscricaoCreateView_out(r.participante, r.evento)
         IN Refused(out) /\ out.kind = AlreadyRegistered
      /\ \A p \in ParticipanteInputs, st \in InscricaoStatus :
           LET out == InscricaoUsuarioView_out(r.participante, r.evento, p, st)
           IN Refused(out) /\ out.kind = AlreadyRegistered

\* C27: a cancelled registration stays as a Cancelled row and the
\* participant's later register for the event is refused as already
\* registered; a deleted registration is gone and, once the participant has
\* no row for the event, the participant's register succeeds on both entry
\* points and creates a new Pending registration.
C27_DeletedPairRegistersAgain ==
  /\ CancelaMasNaoApaga
  /\ CanceladaBloqueia
  /\ \A u \in Usuarios, e \in EventoIds :
       (perfil[u] \in PerfisParticipante /\ Existing(inscricoes, e, u) = {}) =>
         /\ NovaPendente(InscricaoCreateView_out(u, e), e, u)
         /\ \A p \in ParticipanteInputs, st \in InscricaoStatus :
              NovaPendente(InscricaoUsuarioView_out(u, e, p, st), e, u)

\* the Confirmed registrations of the event of r other than r
OutrasConfirmadas(r) == {q \in Confirmadas(inscricoes, r.evento) : q.pk # r.pk}

\* C26: saving an existing registration with status Confirmed, with either
\* value of the attendance flag, is refused with CapacityExceeded exactly
\* when the Confirmed registrations of the event other than itself are at
\* least the capacity, and is stored otherwise; so on an event whose
\* Confirmed count equals the capacity the event page re-confirms a
\* Confirmed registration and the attendance sheet changes its flag.
C26_CapacityExcludesOwnRecord ==
  /\ \A r \in inscricoes, pres \in BOOLEAN :
       LET rec == [r EXCEPT !.status = CONFIRMADA, !.presenca_confirmada = pres]
           sv == Inscricao_save(inscricoes, rec)
       IN IF Cardinality(OutrasConfirmadas(r)) >= eventos[r.evento].capacidade
            THEN sv.kind = CapacityExceeded /\ sv.insc = inscricoes
            ELSE sv.kind = OK /\ sv.insc = (inscricoes \ {r}) \cup {rec}
  /\ \A r \in inscricoes :
       (/\ r.status = CONFIRMADA
        /\ Cardinality(Confirmadas(inscricoes, r.evento)) = eventos[r.evento].capacidade) =>
         /\ LET out == DetalhesEventoView_out("adm", r.evento, FALSE, r.participante, CONFIRMADA)
            IN out.kind = OK /\ out.insc = inscricoes
         /\ \A marcadas \in SUBSET Pks(Confirmadas(inscricoes, r.evento)) :
              LET out == PresencaView_out("adm", r.evento, marcadas)
              IN /\ out.kind = OK
                 /\ Row(out.insc, r.pk) = [r EXCEPT !.presenca_confirmada = (r.pk \in marcadas)]

\* the attendance of a Confirmed registration was saved on an event whose
\* Confirmed count equals its capacity
C26_Witness ==
  /\ result.kind = OK
  /\ \E r \in inscricoes :
       /\ r.status = CONFIRMADA /\ r.presenca_confirmada
       /\ Cardinality(Confirmadas(inscricoes, r.evento)) = eventos[r.evento].capacidade

\* the requests a Student or Professor can send: a register creates the
\* sender's own Pending, not attended registration whatever the request
\* names; the manage requests and the attendance sheet are refused
SoAutoInscricaoPendente ==
  \A u \in Usuarios :
    perfil[u] \in {ALUNO, PROFESSOR} =>
      \A e \in EventoIds :
        /\ LET out == InscricaoCreateView_out(u, e)
           IN out.kind = OK => NovaPendente(out, e, u)
        /\ \A marcadas \in SUBSET Pks(Confirmadas(inscricoes, e)) :
             Refused(PresencaView_out(u, e, marcadas))
        /\ \A p \in ParticipanteInputs, st \in InscricaoStatus :
             /\ LET out == InscricaoUsuarioView_out(u, e, p, st)
                IN out.kind = OK => NovaPendente(out, e, u)
             /\ Refused(DetalhesEventoView_out(u, e, FALSE, p, st))
             /\ \A pres \in BOOLEAN :
                  Refused(InscricaoManageCreateView_out(u, e, p, st, pres))

\* what a step of a Student or Professor leaves in the Inscricao table: the
\* rows as they were, a new Pending row of the sender, or the sender's own
\* row cancelled; the rows it removes are the sender's
PassoDeParticipante ==
  (/\ result'.actor \in DOMAIN usuarios
   /\ perfil[result'.actor] \in {ALUNO, PROFESSOR}) =>
    /\ \A r \in inscricoes' :
         \/ r \in inscricoes
         \/ /\ r.pk \notin Pks(inscricoes)
            /\ r.participante = result'.actor
            /\ r.status = PENDENTE /\ ~r.presenca_confirmada
         \/ /\ r.pk \in Pks(inscricoes)
            /\ r.participante = result'.actor
            /\ r = [Row(inscricoes, r.pk) EXCEPT !.status = CANCELADA]
    /\ \A r \in inscricoes :
         r.pk \notin Pks(inscricoes') => r.participante = result'.actor

\* C30: no step of a Student or Professor makes a registration Confirmed or
\* sets an attendance flag: their registers, on the web form and on the REST
\* endpoint, create a Pending, not attended registration of the sender
\* whatever status, participant or attendance the request names, and the
\* only other changes their steps make are the cancellation and the removal
\* of their own registration.
C30_ParticipantsNeverConfirm ==
  /\ []SoAutoInscricaoPendente
  /\ [][PassoDeParticipante]_vars

\* Professor p1 registered for an event while naming another participant
\* and the status Confirmed: the row is p1's own and Pending
C30_Witness ==
  /\ result = [actor |-> "p1", kind |-> OK]
  /\ \E r \in inscricoes :
       r.participante = "p1" /\ r.status = PENDENTE /\ ~r.presenca_confirmada
  /\ \A r \in inscricoes : r.status # CONFIRMADA

\* C22: an event is modified or deleted only by the Organizer who owns it
\* or by an Admin; a request by anyone else leaves the event as it was.
C22_OnlyOwnerOrAdminManages ==
  [][\A e \in DOMAIN eventos :
       (e \notin DOMAIN eventos' \/ eventos'[e] # eventos[e]) =>
         \/ perfil[result'.actor] = ADMIN
         \/ /\ perfil[result'.actor] = ORGANIZADOR
            /\ eventos[e].organizador = result'.actor]_vars

\* the capacity asked for is below the number of Confirmed registrations
\* event e has
ReduzAbaixoDasConfirmadas(e, capacidade) ==
  capacidade < Cardinality(Confirmadas(inscricoes, e))

\* C29: an update of an event that lowers its capacity below the number of
\* its Confirmed registrations is refused, by the edit form and by the REST
\* update alike, so that in every state reached with event updates among the
\* steps no event has more Confirmed registrations than its capacity.
C29_UpdateKeepsCapacityAboveConfirmed ==
  /\ \A u \in Usuarios, e \in EventoEditados \cap DOMAIN eventos :
       /\ \A form \in EventoForms :
            ReduzAbaixoDasConfirmadas(e, form.capacidade) =>
              EditarEventoView_out(u, e, form).kind # OK
       /\ \A data \in EventoPatches :
            ("capacidade" \in data.campos
               /\ ReduzAbaixoDasConfirmadas(e, data.capacidade)) =>
              EventoUpdateView_out(u, e, data).kind # OK
  /\ \A e \in DOMAIN eventos :
       eventos[e].capacidade >= Cardinality(Confirmadas(inscricoes, e))

\* the Confirmed registrations of event e, counted on the rows themselves
NumConfirmadas(e) ==
  Cardinality({r \in inscricoes : r.evento = e /\ r.status = CONFIRMADA})

\* the rows of event e that are not Confirmed are removed
SoConfirmadas(e) ==
  {r \in inscricoes : r.evento = e => r.status = CONFIRMADA}

\* in the current state the seats left on every event are its capacity minus
\* its Confirmed registrations, and zero when that is negative; the Pending
\* and Cancelled registrations make no difference
VagasCertas ==
  \A e \in DOMAIN eventos :
    /\ vagas_disponiveis(inscricoes, e) >= 0
    /\ NumConfirmadas(e) <= eventos[e].capacidade =>
         vagas_disponiveis(inscricoes, e) + NumConfirmadas(e) = eventos[e].capacidade
    /\ NumConfirmadas(e) > eventos[e].capacidade =>
         vagas_disponiveis(inscricoes, e) = 0
    /\ vagas_disponiveis(inscricoes, e) = vagas_disponiveis(SoConfirmadas(e), e)

\* a step that confirms one registration on an event with one seat left
\* leaves no seat, and a step that cancels one Confirmed registration of an
\* event that was not over capacity leaves one seat more
PassoDeVagas ==
  \A e \in DOMAIN eventos \cap DOMAIN eventos' :
    eventos'[e] = eventos[e] =>
      /\ (/\ vagas_disponiveis(inscricoes, e) = 1
          /\ \E r \in inscricoes' :
               /\ r.evento = e /\ r.status = CONFIRMADA
               /\ \A q \in inscricoes : q.pk = r.pk => q.status # CONFIRMADA
               /\ \A q \in inscricoes : q.pk # r.pk => q \in inscricoes')
           => vagas_disponiveis(inscricoes, e)' = 0
      /\ (/\ NumConfirmadas(e) <= eventos[e].capacidade
          /\ \E r \in inscricoes :
               /\ r.evento = e /\ r.status = CONFIRMADA
               /\ [r EXCEPT !.status = CANCELADA] \in inscricoes'
               /\ \A q \in inscricoes : q.pk # r.pk => q \in inscricoes')
           => vagas_disponiveis(inscricoes, e)' = vagas_disponiveis(inscricoes, e) + 1

\* C24: the available slots of an event are max(capacity - number of
\* Confirmed registrations, 0): Pending and Cancelled registrations do not
\* reduce them, confirming a registration with one seat left brings them to
\* zero, and cancelling a Confirmed registration of an event that is not
\* over capacity raises them by one.
C24_VagasDisponiveis ==
  /\ []VagasCertas
  /\ [][PassoDeVagas]_vars

\* an event with two seats has one Confirmed and one Cancelled registration
\* and one seat left, the cancellation having just been stored
C24_Witness ==
  /\ result.kind = OK
  /\ "e1" \in DOMAIN eventos
  /\ eventos["e1"].capacidade = CapacidadeInicial + 1
  /\ \E r, q \in inscricoes :
       /\ r.evento = "e1" /\ r.status = CONFIRMADA
       /\ q.evento = "e1" /\ q.status = CANCELADA
  /\ vagas_disponiveis(inscricoes, "e1") = 1

\* every account with role Student or Professor records an institution
TemInstituicao ==
  \A u \in DOMAIN usuarios :
    usuarios[u].perfil \in {ALUNO, PROFESSOR} => usuarios[u].instituicao # NoInst

\* a Student or Professor row without institution fails validation, and the
\* self-signup, the Admin's user form and the profile update refuse it
SemInstituicaoRecusado ==
  /\ \A pf \in {ALUNO, PROFESSOR} :
       /\ Usuario_clean([perfil |-> pf, instituicao |-> NoInst]) # OK
       /\ \A id \in NovosUsuarios :
            /\ SignupView_out(id, pf, NoInst).kind # OK
            /\ SignupView_out(id, pf, NoInst).us = usuarios
            /\ \A u \in UsuarioGestores \cap DOMAIN usuarios :
                 /\ CadastroUsuarioView_out(u, id, pf, NoInst).kind # OK
                 /\ CadastroUsuarioView_out(u, id, pf, NoInst).us = usuarios
  /\ \A u \in UsuarioAtores \cap DOMAIN usuarios :
       usuarios[u].perfil \in {ALUNO, PROFESSOR} =>
         /\ PerfilUsuarioView_out(u, NoInst).kind # OK
         /\ PerfilUsuarioView_out(u, NoInst).us = usuarios

\* C25: every user whose role is Student or Professor has a non-empty
\* affiliation; validating or creating such a user without one fails, on
\* self-signup, on creation by the Admin and on the profile update.
C25_AffiliationRequired == TemInstituicao /\ SemInstituicaoRecusado

\* a Student account was created and its profile update without institution
\* has just been refused
C25_Witness ==
  /\ "n1" \in DOMAIN usuarios
  /\ usuarios["n1"].perfil = ALUNO
  /\ usuarios["n1"].instituicao # NoInst
  /\ result = [actor |-> "n1", kind |-> InvalidInput]

\* the row breaks what every Event must satisfy
EventoInvalido(ev) ==
  \/ ev.data_fim < ev.data_inicio
  \/ ev.capacidade <= 0
  \/ perfil[ev.organizador] \notin {ORGANIZADOR, ADMIN}

\* the users a form names have an account
UsuariosDoForm(form) ==
  {form.organizador, form.professor_responsavel} \subseteq DOMAIN usuarios

\* the request wrote no event
SemEscrita(out) == out.kind # OK /\ out.ev = eventos

\* C23: in every reachable state every Event has end date >= start date,
\* capacity > 0 and an owner whose role is Organizer or Admin; a create or
\* update that would break this is rejected and stores nothing.
C23_EventoSempreValido ==
  /\ \A e \in DOMAIN eventos : ~EventoInvalido(eventos[e])
  /\ \A u \in Usuarios \cap DOMAIN usuarios, form \in EventoForms :
       UsuariosDoForm(form) =>
         /\ EventoInvalido(EventoDoForm(form,
                 IF perfil[u] = ADMIN THEN form.organizador ELSE u)) =>
              SemEscrita(CadastroEventoView_out(u, form))
         /\ EventoInvalido(EventoDoForm(form, form.organizador)) =>
              /\ SemEscrita(EventoCreateView_out(u, form))
              /\ \A e \in EventoEditados \cap DOMAIN eventos :
                   SemEscrita(EditarEventoView_out(u, e, form))
  /\ \A u \in Usuarios \cap DOMAIN usuarios, data \in EventoPatches,
        e \in EventoEditados \cap DOMAIN eventos :
       (~EventoInvalido(eventos[e]) /\ EventoInvalido(PatchedEvento(eventos[e], data))) =>
         SemEscrita(EventoUpdateView_out(u, e, data))

\* in the current state no change of status and no attendance sheet, by any
\* of the requests, touches the certificates of the registrations it keeps
CertificadosIntocados ==
  /\ \A u \in ExclusaoAtores, e \in CertEventos \cap DOMAIN eventos :
       /\ \A cancel_inscricao \in BOOLEAN, p \in CertParticipantes, st \in InscricaoStatus :
            LET out == DetalhesEventoView_out(u, e, cancel_inscricao, p, st)
            IN \A c \in certificados :
                 c \in out.cert \/ c.inscricao \notin Pks(out.insc)
       /\ \A marcadas \in SUBSET Pks(Confirmadas(inscricoes, e)) :
            PresencaView_out(u, e, marcadas).cert = certificados
  /\ \A u \in ExclusaoAtores, pk \in PkInputs :
       InscricaoCancelView_out(u, pk).cert = certificados

\* every certificate belongs to a registration that exists
CertificadoTemInscricao ==
  \A c \in certificados : c.inscricao \in Pks(inscricoes)

\* a certificate of the current state is in the next state as it is, unless
\* its registration is no longer there; a request that only changes status
\* or attendance adds none
PassoDeCertificado ==
  /\ \A c \in certificados :
       c \in certificados' \/ c.inscricao \notin Pks(inscricoes')
  /\ Pks(inscricoes') = Pks(inscricoes) /\ inscricoes' # inscricoes =>
       certificados' = certificados

\* C28: changing the status or the attendance of a registration never
\* creates, modifies or deletes a Certificate: an issued Certificate stays as
\* it is when its registration is cancelled, moved back to Pending or loses
\* its attendance; among the enrollment operations a Certificate disappears
\* only when its registration is deleted, directly or with its event, so no
\* Certificate exists without its Registration.
C28_CertificateFollowsRegistrationRow ==
  /\ [](CertificadosIntocados /\ CertificadoTemInscricao)
  /\ [][PassoDeCertificado]_vars

\* a certificate exists for a registration that was then cancelled
C28_Witness ==
  \E c \in certificados :
    /\ c.inscricao \in Pks(inscricoes)
    /\ Row(inscricoes, c.inscricao).status = CANCELADA

====
